---- MODULE Spec2Model ----
(***************************************************************************)
(* Model of the agent orchestration core of the personal assistant:        *)
(* processMessage (src/core/agent.ts), the context manager                 *)
(* (src/core/contextManager.ts), the token counter (src/core/              *)
(* tokenCounter.ts), and the conversation and trace stores.                *)
(*                                                                         *)
(* A text is a sequence of tokens, so countTokens is Len and string        *)
(* concatenation is \o.  A message is [role, isString, content]: content   *)
(* is a sequence of blocks, and a string content is the one block          *)
(* StringContent(text) with isString set.  Timestamps are the number of    *)
(* the turn that took them; costs are in micro-USD (tokens * price per     *)
(* million tokens).                                                        *)
(***************************************************************************)
EXTENDS Integers, Sequences, FiniteSets, TLC

\* ------------------------------------------------------------------- bounds
\* largest configured safetyLimits.maxIterations
MaxIter == 2
\* calls of processMessage in one behaviour
MaxTurns == 1

\* ---------------------------------------------------------------- constants
KeepRecentCount == 20
MessageOverhead == 4
ToolOverhead == 10
PriceInHaiku == 1
PriceOutHaiku == 5
PriceInSonnet == 3
PriceOutSonnet == 15

\* ------------------------------------------------------------ sequence help
RECURSIVE SumSeq(_)
SumSeq(s) == IF s = <<>> THEN 0 ELSE Head(s) + SumSeq(Tail(s))

RECURSIVE FilterSeq(_, _)
\* Array.prototype.filter on the block type
FilterSeq(s, ty) ==
    IF s = <<>> THEN <<>>
    ELSE IF Head(s).type = ty THEN <<Head(s)>> \o FilterSeq(Tail(s), ty)
         ELSE FilterSeq(Tail(s), ty)

RECURSIVE ConcatTexts(_)
\* the += loop over the text blocks of one response
ConcatTexts(blocks) ==
    IF blocks = <<>> THEN <<>>
    ELSE Head(blocks).text \o ConcatTexts(Tail(blocks))

\* variant: the text of a response is put before the text accumulated so far
AccumulateTextPrepend(response, textBlocks) ==
    ConcatTexts(textBlocks) \o response

\* assistantResponse += textBlock.text, for the text blocks of one response
AccumulateText(response, textBlocks) ==
    response \o ConcatTexts(textBlocks)

\* ----------------------------------------------------------------- messages
\* a message content that is a string (typeof content === 'string')
StringContent(text) == <<[type |-> "string", text |-> text]>>
StringOf(message) == message.content[1].text

\* ------------------------------------------------------------ token counter
\* countTokens: "" has no token; otherwise the length of the encoding
countTokens(text) == IF text = <<>> THEN 0 ELSE Len(text)

\* the call identifier of a tool_use block, as the text that is counted
IdText(id) == <<"toolu">>

\* the tokens one content block adds in countMessageTokens
BlockTokens(block) ==
    IF block.type = "text" THEN countTokens(block.text)
    ELSE IF block.type = "tool_result"
         THEN countTokens(IdText(block.tool_use_id)) + countTokens(block.content)
         ELSE 0

RECURSIVE BlocksTokens(_)
BlocksTokens(blocks) ==
    IF blocks = <<>> THEN 0
    ELSE BlockTokens(Head(blocks)) + BlocksTokens(Tail(blocks))

RECURSIVE countMessageTokens(_)
countMessageTokens(messages) ==
    IF messages = <<>> THEN 0
    ELSE LET message == Head(messages) IN
         MessageOverhead
         + countTokens(<<message.role>>)
         + (IF message.isString THEN countTokens(StringOf(message))
            ELSE BlocksTokens(message.content))
         + countMessageTokens(Tail(messages))

\* the tool schemas passed to the provider (name, description, JSON schema)
tools == <<
    [name |-> <<"add_task">>,      description |-> <<"Creates">>,     input_schema |-> <<"{title}">>],
    [name |-> <<"list_tasks">>,    description |-> <<"Retrieves">>,   input_schema |-> <<"{filter}">>],
    [name |-> <<"update_task">>,   description |-> <<"Updates">>,     input_schema |-> <<"{id,title}">>],
    [name |-> <<"complete_task">>, description |-> <<"Marks">>,       input_schema |-> <<"{id}">>],
    [name |-> <<"delete_task">>,   description |-> <<"Permanently">>, input_schema |-> <<"{id}">>] >>

systemPrompt == <<"You", "are", "a", "helpful", "assistant">>

RECURSIVE countToolTokens(_)
countToolTokens(ts) ==
    IF ts = <<>> THEN 0
    ELSE LET tool == Head(ts) IN
         countTokens(tool.name) + countTokens(tool.description)
         + countTokens(tool.input_schema) + ToolOverhead
         + countToolTokens(Tail(ts))

getTotalRequestTokens(sys, messages, ts) ==
    countTokens(sys) + countMessageTokens(messages) + countToolTokens(ts)

\* the names that have a handler in the tool registry
toolRegistry ==
    {"add_task", "list_tasks", "update_task", "complete_task", "delete_task",
     "read_calendar_events"}

\* ------------------------------------------------------------------ pricing
MODEL_PRICING ==
    [m \in {"claude-3-5-haiku-20241022", "claude-3-5-sonnet-20241022"} |->
        IF m = "claude-3-5-haiku-20241022"
        THEN [input |-> PriceInHaiku, output |-> PriceOutHaiku]
        ELSE [input |-> PriceInSonnet, output |-> PriceOutSonnet]]

\* variant: every amount carries a fixed fee
TokenCostWithFee(tokens, pricePerMillion) == tokens * pricePerMillion + 1

\* (tokens / 1_000_000) * price, in millionths of a dollar
TokenCost(tokens, pricePerMillion) == tokens * pricePerMillion

\* variant: a model without a price is charged like the cheapest model
calculateCostFallback(inputTokens, outputTokens, model) ==
    IF model \notin DOMAIN MODEL_PRICING
    THEN TokenCost(inputTokens, PriceInHaiku)
         + TokenCost(outputTokens, PriceOutHaiku)
    ELSE TokenCost(inputTokens, MODEL_PRICING[model].input)
         + TokenCost(outputTokens, MODEL_PRICING[model].output)

calculateCost(inputTokens, outputTokens, model) ==
    IF model \notin DOMAIN MODEL_PRICING THEN 0
    ELSE TokenCost(inputTokens, MODEL_PRICING[model].input)
         + TokenCost(outputTokens, MODEL_PRICING[model].output)

\* ---------------------------------------------------------- context manager
Min(a, b) == IF a < b THEN a ELSE b
Max(a, b) == IF a > b THEN a ELSE b

\* a relative index of Array.prototype.slice, clamped to 0..n
SliceIndex(n, idx) == IF idx < 0 THEN Max(n + idx, 0) ELSE Min(idx, n)

\* Array.prototype.slice(start, end)
slice(s, start, end) ==
    SubSeq(s, SliceIndex(Len(s), start) + 1, SliceIndex(Len(s), end))

\* variant: a count equal to the threshold does not trigger summarization
needsSummarizationStrict(conversation, threshold) ==
    LET tokenCount == IF "tokenCount" \in DOMAIN conversation
                      THEN conversation.tokenCount ELSE 0
    IN tokenCount > threshold

\* conversation.tokenCount || 0, compared with the threshold
needsSummarization(conversation, threshold) ==
    LET tokenCount == IF "tokenCount" \in DOMAIN conversation
                      THEN conversation.tokenCount ELSE 0
    IN tokenCount >= threshold

RECURSIVE JoinTexts(_)
\* .map(block => block.text).join('\n')
JoinTexts(blocks) ==
    IF blocks = <<>> THEN <<>>
    ELSE IF Len(blocks) = 1 THEN Head(blocks).text
         ELSE Head(blocks).text \o <<"\n">> \o JoinTexts(Tail(blocks))

\* variant: a list of exactly keepRecentCount messages is summarized
NotEnoughMessagesStrict(length, keepRecentCount) == length < keepRecentCount

\* messages.length <= keepRecentCount
NotEnoughMessages(length, keepRecentCount) == length <= keepRecentCount

\* `${role}: ${text}\n\n`
TranscriptLine(role, text) ==
    <<IF role = "user" THEN "User:" ELSE "Assistant:">> \o text \o <<"\n\n">>

RECURSIVE BlocksText(_, _)
\* the lines of the blocks that have a text
BlocksText(role, blocks) ==
    IF blocks = <<>> THEN <<>>
    ELSE (IF Head(blocks).type = "text"
          THEN TranscriptLine(role, Head(blocks).text) ELSE <<>>)
         \o BlocksText(role, Tail(blocks))

RECURSIVE ConversationText(_)
\* the conversation text built from the old messages for the summary request
ConversationText(oldMessages) ==
    IF oldMessages = <<>> THEN <<>>
    ELSE LET msg == Head(oldMessages) IN
         (IF msg.isString THEN TranscriptLine(msg.role, StringOf(msg))
          ELSE BlocksText(msg.role, msg.content))
         \o ConversationText(Tail(oldMessages))

\* variant: the metadata counts the messages that were folded
SummaryMetadataFoldedCount(messages, summarizedMessages, keepRecentCount, now) ==
    [summarizedAt |-> now,
     originalMessageCount |-> Len(messages) - keepRecentCount,
     messagesKept |-> keepRecentCount,
     tokenCountBefore |-> countMessageTokens(messages),
     tokenCountAfter |-> countMessageTokens(summarizedMessages)]

\* the SummaryMetadata of one summarization
SummaryMetadata(messages, summarizedMessages, keepRecentCount, now) ==
    [summarizedAt |-> now,
     originalMessageCount |-> Len(messages),
     messagesKept |-> keepRecentCount,
     tokenCountBefore |-> countMessageTokens(messages),
     tokenCountAfter |-> countMessageTokens(summarizedMessages)]

\* summaryOutcome is what the summarization provider call does: it throws
\* (ok = FALSE) or returns content blocks; called and conversationText
\* record whether the provider was called and with which conversation text
summarizeOldMessages(messages, keepRecentCount, summaryOutcome, now) ==
    IF NotEnoughMessages(Len(messages), keepRecentCount)
    THEN [success |-> FALSE, error |-> "Not enough messages to summarize",
          called |-> FALSE]
    ELSE IF ~summaryOutcome.ok
    THEN [success |-> FALSE, error |-> "Failed to summarize messages",
          called |-> TRUE]
    ELSE LET oldMessages == slice(messages, 0, -keepRecentCount)
             recentMessages == slice(messages, -keepRecentCount, Len(messages))
             summaryText == JoinTexts(FilterSeq(summaryOutcome.content, "text"))
             summaryMessage ==
                 [role |-> "user", isString |-> TRUE,
                  content |-> StringContent(
                      <<"[Previous conversation summary:">>
                      \o summaryText \o <<"]">>)]
             summarizedMessages == <<summaryMessage>> \o recentMessages
         IN [success |-> TRUE, called |-> TRUE,
             conversationText |-> ConversationText(oldMessages),
             data |-> [summarizedMessages |-> summarizedMessages,
                       metadata |-> SummaryMetadata(messages,
                                        summarizedMessages, keepRecentCount,
                                        now)]]

\* { ...conversation, messages, tokenCount, summaries }
SpreadConversation(conversation, messages, tokenCount, summaries) ==
    [f \in DOMAIN conversation \cup {"messages", "tokenCount", "summaries"} |->
        IF f = "messages" THEN messages
        ELSE IF f = "tokenCount" THEN tokenCount
        ELSE IF f = "summaries" THEN summaries
        ELSE conversation[f]]

\* variant: the conversation is summarized whatever its token count
applyContextManagementEager(conversation, cfg, summaryOutcome, now) ==
    LET r == summarizeOldMessages(conversation.messages,
                                  cfg.keepRecentCount, summaryOutcome, now)
    IN IF ~r.success
       THEN [success |-> TRUE, data |-> conversation, called |-> r.called]
       ELSE [success |-> TRUE, called |-> TRUE,
             data |-> SpreadConversation(conversation,
                          r.data.summarizedMessages,
                          r.data.metadata.tokenCountAfter,
                          Append(IF "summaries" \in DOMAIN conversation
                                 THEN conversation.summaries ELSE <<>>,
                                 r.data.metadata))]

applyContextManagement(conversation, cfg, summaryOutcome, now) ==
    IF ~needsSummarization(conversation, cfg.threshold)
    THEN [success |-> TRUE, data |-> conversation, called |-> FALSE]
    ELSE LET r == summarizeOldMessages(conversation.messages,
                                       cfg.keepRecentCount, summaryOutcome, now)
         IN IF ~r.success THEN r
            ELSE [success |-> TRUE, called |-> TRUE,
                  data |-> SpreadConversation(conversation,
                               r.data.summarizedMessages,
                               r.data.metadata.tokenCountAfter,
                               Append(IF "summaries" \in DOMAIN conversation
                                      THEN conversation.summaries ELSE <<>>,
                                      r.data.metadata))]

\* ------------------------------------------------------------ tool dispatch
\* what the handler of a registered tool does with a call: it returns
\* success, returns { success: false, error } (validation), or throws (I/O)
HandlerOutcomes(name) ==
    IF name = "add_task" THEN {"ok", "fail"} ELSE {"ok", "throw"}

\* variant: a name without a handler is answered like a successful call
executeToolCallUnknownOk(toolUse, outcome) ==
    IF toolUse.name \notin toolRegistry \/ outcome = "ok"
    THEN [toolName |-> toolUse.name, input |-> toolUse.input,
          output |-> [success |-> TRUE, data |-> <<"{data}">>],
          success |-> TRUE, handlerInvoked |-> toolUse.name \in toolRegistry]
    ELSE [toolName |-> toolUse.name, input |-> toolUse.input,
          output |-> [success |-> FALSE,
                      error |-> IF outcome = "throw" THEN <<"boom">>
                                ELSE <<"invalid", "input">>],
          success |-> FALSE, handlerInvoked |-> TRUE]

\* members that the registry object inherits from Object.prototype: the
\* lookup toolRegistry[name] finds them although no tool has that name
ObjectPrototype == {"constructor", "toString", "hasOwnProperty", "__proto__"}

\* the object that the JSON text of a tool input denotes
InputObject(input) ==
    IF input = "{success:true,data:1}" THEN [success |-> TRUE, data |-> <<"1">>]
    ELSE IF input = "{success:false}" THEN [success |-> FALSE]
    ELSE [object |-> input]

\* what the call handler(toolUse.input) does when the lookup found an
\* inherited member: Object(input) returns the input object, toString returns
\* a text, hasOwnProperty throws on an undefined receiver, and __proto__ is
\* an object that cannot be called; a field that is absent is undefined
InheritedCall(toolUse) ==
    LET name == toolUse.name
        base == [toolName |-> name, input |-> toolUse.input,
                 handlerInvoked |-> name # "__proto__"]
        thrown == [success |-> FALSE,
                   error |-> IF name = "__proto__"
                             THEN <<"handler", "is", "not", "a", "function">>
                             ELSE <<"Cannot", "convert", "undefined", "to",
                                    "object">>]
        output == IF name = "constructor" THEN InputObject(toolUse.input)
                  ELSE IF name = "toString"
                  THEN [text |-> <<"[object", "Undefined]">>]
                  ELSE thrown
        withOutput == [f \in DOMAIN base \cup {"output"} |->
                          IF f = "output" THEN output ELSE base[f]]
    IN IF name \in {"hasOwnProperty", "__proto__"}
       THEN [f \in DOMAIN withOutput \cup {"success"} |->
                IF f = "success" THEN FALSE ELSE withOutput[f]]
       ELSE IF "success" \in DOMAIN output
       THEN [f \in DOMAIN withOutput \cup {"success"} |->
                IF f = "success" THEN output.success ELSE withOutput[f]]
       ELSE withOutput

\* executeToolCall: the trace of one tool call
executeToolCall(toolUse, outcome) ==
    IF toolUse.name \in toolRegistry
    THEN IF outcome = "throw"
         THEN [toolName |-> toolUse.name, input |-> toolUse.input,
               output |-> [success |-> FALSE, error |-> <<"boom">>],
               success |-> FALSE, handlerInvoked |-> TRUE]
         ELSE IF outcome = "fail"
         THEN [toolName |-> toolUse.name, input |-> toolUse.input,
               output |-> [success |-> FALSE, error |-> <<"invalid", "input">>],
               success |-> FALSE, handlerInvoked |-> TRUE]
         ELSE [toolName |-> toolUse.name, input |-> toolUse.input,
               output |-> [success |-> TRUE, data |-> <<"{data}">>],
               success |-> TRUE, handlerInvoked |-> TRUE]
    ELSE IF toolUse.name \in ObjectPrototype
    THEN InheritedCall(toolUse)
    ELSE [toolName |-> toolUse.name, input |-> toolUse.input,
          output |-> [success |-> FALSE,
                      error |-> <<"Unknown", "tool:", toolUse.name>>],
          success |-> FALSE, handlerInvoked |-> FALSE]

\* trace.success as a condition: undefined counts as false
TraceSucceeded(trace) == "success" \in DOMAIN trace /\ trace.success

\* the content of a tool result: the stringified data of a success (nothing
\* when there is no data), or "Error: " and the error (undefined when the
\* output has none)
ToolResultContent(trace) ==
    IF TraceSucceeded(trace)
    THEN IF "data" \in DOMAIN trace.output THEN trace.output.data ELSE <<>>
    ELSE <<"Error:">> \o (IF "error" \in DOMAIN trace.output
                          THEN trace.output.error ELSE <<"undefined">>)

\* variant: the result is not correlated with the call it answers
ToolResultMessageUncorrelated(toolUse, trace) ==
    [role |-> "user", isString |-> FALSE,
     content |-> <<[type |-> "tool_result", tool_use_id |-> 0,
                    content |-> ToolResultContent(trace)]>>]

\* the synthetic tool-result message appended after a tool call
ToolResultMessage(toolUse, trace) ==
    [role |-> "user", isString |-> FALSE,
     content |-> <<[type |-> "tool_result", tool_use_id |-> toolUse.id,
                    content |-> ToolResultContent(trace)]>>]

\* ------------------------------------------------------------- environment
SimpleMessage(role, word) ==
    IF role = "user"
    THEN [role |-> "user", isString |-> TRUE,
          content |-> StringContent(<<word>>)]
    ELSE [role |-> "assistant", isString |-> FALSE,
          content |-> <<[type |-> "text", text |-> <<word>>]>>]

\* a transcript of n messages left by earlier text-only turns
Transcript(n) ==
    [k \in 1..n |-> IF k % 2 = 1 THEN SimpleMessage("user", "hi")
                    ELSE SimpleMessage("assistant", "ok")]

\* the conversation a successful turn stored for a transcript
StoredConversation(id, messages) ==
    [id |-> id, startedAt |-> 0, lastMessageAt |-> 0, messages |-> messages,
     tokenCount |-> getTotalRequestTokens(systemPrompt, messages, tools),
     summaries |-> <<>>]

ExistingId == 1
MissingId == 9
\* lengths of the transcript stored under ExistingId when the model starts
InitialLengths == {2, KeepRecentCount + 2}

\* configurations: the hard limit is never reached, or is reached after a
\* few messages (89 is the estimate
\* of the short transcript plus the user message); the threshold is below every stored count, or between the
\* short and the long transcript
HardLimits == {89, 1000}
Thresholds == {50, 150}
Models == {"claude-3-5-haiku-20241022", "my-local-model"}

\* SUMMARIZATION_THRESHOLD stands in where the threshold is not read
DefaultThreshold == 150
MaxConversationTokens == 100000

\* the agent configurations: context management off (maxConversationTokens
\* not set), or on with either threshold
Configs ==
    { c \in [safetyLimits :
                [maxIterations : 0..MaxIter,
                 hardTokenLimit : HardLimits,
                 summarizationThreshold : Thresholds],
            maxConversationTokens : {0, MaxConversationTokens},
            model : Models] :
        c.maxConversationTokens = 0
            => c.safetyLimits.summarizationThreshold = DefaultThreshold }

\* the user's text of a turn
UserMessages == {<<"please", "help">>}

\* what the completion provider can answer, before call identifiers are
\* assigned
Responses ==
    { [content |-> <<[type |-> "text", text |-> <<"Done.">>]>>,
       input_tokens |-> 90, output_tokens |-> 4, stop_reason |-> "end_turn"],
      [content |-> <<[type |-> "text", text |-> <<"Adding">>],
                     [type |-> "text", text |-> <<"it">>],
                     [type |-> "tool_use", name |-> "add_task"]>>,
       input_tokens |-> 80, output_tokens |-> 7, stop_reason |-> "tool_use"],
      [content |-> <<[type |-> "tool_use", name |-> "list_tasks"],
                     [type |-> "tool_use", name |-> "send_email"]>>,
       input_tokens |-> 85, output_tokens |-> 9, stop_reason |-> "tool_use"] }

\* the provider gives every tool_use block an identifier of its own
ToolUseId(t, iterationNumber, k) == t * 100 + iterationNumber * 10 + k

ResponseContent(r, t, iterationNumber) ==
    [k \in 1..Len(r.content) |->
        IF r.content[k].type = "tool_use"
        THEN [type |-> "tool_use",
              id |-> ToolUseId(t, iterationNumber, k),
              name |-> r.content[k].name, input |-> "{}"]
        ELSE r.content[k]]

NoConversation ==
    [id |-> 0, startedAt |-> 0, lastMessageAt |-> 0, messages |-> <<>>,
     tokenCount |-> 0, summaries |-> <<>>]
NoResponse ==
    [content |-> <<>>, input_tokens |-> 0, output_tokens |-> 0,
     stop_reason |-> "none"]
NoResult == [success |-> FALSE, error |-> "none"]

\* what the summarization provider call can do
SummaryOutcomes ==
    { [ok |-> FALSE, content |-> <<>>],
      [ok |-> TRUE, content |-> <<[type |-> "text", text |-> <<"summary">>]>>] }

\* --------------------------------------------- the context manager by itself
\* the exported functions of contextManager.ts applied to bounded inputs
MaxLen == 4
MaxKeep == 3

Word(k) == <<"m1", "m2", "m3", "m4", "m5", "m6", "m7", "m8">>[((k - 1) % 8) + 1]

\* the k-th message of a history: a user text, an assistant turn with a tool
\* request, the tool result, an assistant text, and so on
HistoryMessage(k) ==
    IF k % 4 = 1
    THEN [role |-> "user", isString |-> TRUE,
          content |-> StringContent(<<Word(k)>>)]
    ELSE IF k % 4 = 2
    THEN [role |-> "assistant", isString |-> FALSE,
          content |-> <<[type |-> "text", text |-> <<Word(k)>>],
                        [type |-> "tool_use", id |-> k, name |-> "add_task",
                         input |-> "{}"]>>]
    ELSE IF k % 4 = 3
    THEN [role |-> "user", isString |-> FALSE,
          content |-> <<[type |-> "tool_result", tool_use_id |-> k - 1,
                         content |-> <<Word(k)>>]>>]
    ELSE [role |-> "assistant", isString |-> FALSE,
          content |-> <<[type |-> "text", text |-> <<Word(k)>>]>>]

History(n) == [k \in 1..n |-> HistoryMessage(k)]

\* a summary record left by an earlier summarization
EarlierSummary ==
    [summarizedAt |-> 0, originalMessageCount |-> 30, messagesKept |-> 20,
     tokenCountBefore |-> 400, tokenCountAfter |-> 300]

\* Conversation values; tokenCount and summaries are optional fields
Conversations ==
    LET required ==
            { [id |-> ExistingId, startedAt |-> 0, lastMessageAt |-> 0,
               messages |-> History(n)] : n \in 0..MaxLen }
        withCount ==
            required \cup
            { [f \in DOMAIN c \cup {"tokenCount"} |->
                  IF f = "tokenCount" THEN t ELSE c[f]] :
              c \in required, t \in {0, 9, 10, 11} }
    IN withCount \cup
       { [f \in DOMAIN c \cup {"summaries"} |->
             IF f = "summaries" THEN s ELSE c[f]] :
         c \in withCount, s \in {<<>>, <<EarlierSummary>>} }

\* the summarization provider can also answer with several blocks
SummaryAnswers ==
    SummaryOutcomes \cup
    { [ok |-> TRUE,
       content |-> <<[type |-> "text", text |-> <<"part", "one">>],
                     [type |-> "text", text |-> <<"part", "two">>]>>] }

\* the arguments of a call of one of the three functions
Calls ==
    [conversation : Conversations,
     threshold : {0, 10},
     keepRecentCount : 0..MaxKeep,
     summaryOutcome : SummaryAnswers]

NoCall ==
    [conversation |-> NoConversation, threshold |-> DefaultThreshold,
     keepRecentCount |-> KeepRecentCount,
     summaryOutcome |-> [ok |-> FALSE, content |-> <<>>]]
NoReturn == [fn |-> "none"]

\* no overlapping turns are running
NoRace == [p \in {} |-> 0]
\* the token counter module as loaded: no encoder yet
NoTokenizer == [encoder |-> 0, created |-> 0, freed |-> <<>>, ops |-> <<>>]

\* -------------------------------------------------------------------- state
VARIABLES
    config,             \* AgentConfig, with its safetyLimits
    store,              \* conversation store: id -> Conversation
    traces,             \* trace sink: the saved execution traces
    turn,               \* number of processMessage calls so far
    pc,                 \* where the running processMessage is
    conversationId,     \* argument of the call; 0 when not given
    userMessage,        \* argument of the call
    conversation,       \* local: the loaded or created conversation
    currentMessages,    \* local: the working message list
    i,                  \* local: loop counter
    iterations,         \* local: iteration traces
    assistantResponse,  \* local: accumulated text
    totalInputTokens,
    totalOutputTokens,
    apiResponse,        \* local: the response of this iteration
    toolIdx,            \* local: position of the for-of over toolUseBlocks
    toolTraces,         \* local: tool traces of this iteration
    inflight,           \* calls awaited and not yet returned
    result,             \* what processMessage returned, when pc = "done"
    storeAtStart,       \* history: store when the turn started
    tracesAtStart,      \* history: traces when the turn started
    providerCalls,      \* history: loop provider calls issued in the turn
    dispatchLog,        \* history: call ids handed to the tool layer
    contextCalls,       \* history: applyContextManagement calls in the turn
    traceAttempts,      \* history: saveTrace calls in the turn
    call,               \* arguments of a context manager function called by itself
    returned,           \* what that function returned
    race,               \* two overlapping turns on one conversation id
    tokenizer           \* the shared encoder handle of the token counter

cfgVars == <<config>>
envVars == <<store, traces>>
localVars == <<conversation, currentMessages, i, iterations, assistantResponse,
               totalInputTokens, totalOutputTokens, apiResponse, toolIdx,
               toolTraces>>
histVars == <<storeAtStart, tracesAtStart, providerCalls, dispatchLog,
              contextCalls, traceAttempts>>
turnVars == <<config, store, traces, turn, pc, conversationId, userMessage,
          conversation, currentMessages, i, iterations, assistantResponse,
          totalInputTokens, totalOutputTokens, apiResponse, toolIdx,
          toolTraces, inflight, result, storeAtStart, tracesAtStart,
          providerCalls, dispatchLog, contextCalls, traceAttempts>>
vars == <<turnVars, call, returned, race, tokenizer>>

safetyLimits == config.safetyLimits

\* the conversation stored under ExistingId when the model starts; the long
\* one went through a summarization in an earlier turn
InitialConversation(n) ==
    [StoredConversation(ExistingId, Transcript(n)) EXCEPT
        !.summaries = IF n > KeepRecentCount THEN <<EarlierSummary>> ELSE <<>>]

Init ==
    /\ config \in Configs
    /\ \E n \in InitialLengths :
           store = (ExistingId :> InitialConversation(n))
    /\ traces = <<>>
    /\ turn = 0
    /\ pc = "idle"
    /\ conversationId = 0
    /\ userMessage = <<>>
    /\ conversation = NoConversation
    /\ currentMessages = <<>>
    /\ i = 0
    /\ iterations = <<>>
    /\ assistantResponse = <<>>
    /\ totalInputTokens = 0
    /\ totalOutputTokens = 0
    /\ apiResponse = NoResponse
    /\ toolIdx = 0
    /\ toolTraces = <<>>
    /\ inflight = {}
    /\ result = NoResult
    /\ storeAtStart = store
    /\ tracesAtStart = <<>>
    /\ providerCalls = 0
    /\ dispatchLog = <<>>
    /\ contextCalls = 0
    /\ traceAttempts = 0
    /\ call = NoCall
    /\ returned = NoReturn
    /\ race = NoRace
    /\ tokenizer = NoTokenizer

\* ----------------------------------------------------------- processMessage
\* the code's conditions, each after the variant a slip would give
LoopContinuesOffByOne(k, maxIterations) == k <= maxIterations
LoopContinues(k, maxIterations) == k < maxIterations

OverHardLimitInclusive(requestTokens, hardTokenLimit) ==
    requestTokens >= hardTokenLimit
OverHardLimit(requestTokens, hardTokenLimit) == requestTokens > hardTokenLimit

HitMaxIterationsLate(iterationNumber, maxIterations) ==
    iterationNumber = maxIterations + 1
HitMaxIterations(iterationNumber, maxIterations) ==
    iterationNumber = maxIterations

\* variant: the loop checkpoints the working list into the store
LoopFrameCheckpoint ==
    /\ store' = (conversation.id :>
                     [conversation EXCEPT !.messages = currentMessages])
                 @@ store
    /\ UNCHANGED traces

\* the iteration loop calls neither saveConversation nor saveTrace
LoopFrame == UNCHANGED <<store, traces>>

\* return { success: false, error }
Fail(message) ==
    /\ pc' = "done"
    /\ result' = [success |-> FALSE, error |-> message]
    /\ inflight' = {}

\* a caller invokes processMessage(userMessage, conversationId?)
StartTurn ==
    /\ pc \in {"idle", "done"}
    /\ turn < MaxTurns
    /\ turn' = turn + 1
    /\ conversationId' \in {0, MissingId} \cup DOMAIN store
    /\ userMessage' \in UserMessages
    /\ pc' = "init"
    /\ conversation' = NoConversation
    /\ currentMessages' = <<>>
    /\ i' = 0
    /\ iterations' = <<>>
    /\ assistantResponse' = <<>>
    /\ totalInputTokens' = 0
    /\ totalOutputTokens' = 0
    /\ apiResponse' = NoResponse
    /\ toolIdx' = 0
    /\ toolTraces' = <<>>
    /\ inflight' = {}
    /\ result' = NoResult
    /\ storeAtStart' = store
    /\ tracesAtStart' = traces
    /\ providerCalls' = 0
    /\ dispatchLog' = <<>>
    /\ contextCalls' = 0
    /\ traceAttempts' = 0
    /\ UNCHANGED <<race, tokenizer, call, returned, config, store, traces>>

\* randomUUID() of createNewConversation
NewConversationId == 10 + turn

\* createNewConversation, when its saveConversation succeeds
NewConversation(id, now) ==
    [id |-> id, startedAt |-> now, lastMessageAt |-> now, messages |-> <<>>,
     tokenCount |-> 0, summaries |-> <<>>]

\* variant: an id that is not in the store starts a new conversation under it
LoadOrCreateOnMiss ==
    /\ pc = "init"
    /\ \E ioOk \in BOOLEAN :
        IF conversationId # 0 /\ conversationId \in DOMAIN store
        THEN /\ UNCHANGED store
             /\ IF ~ioOk
                THEN Fail("Failed to load conversation")
                     /\ UNCHANGED conversation
                ELSE /\ conversation' = store[conversationId]
                     /\ pc' = "context"
                     /\ UNCHANGED <<result, inflight>>
        ELSE IF ~ioOk
             THEN Fail("Failed to save conversation")
                  /\ UNCHANGED <<store, conversation>>
             ELSE /\ conversation' =
                         NewConversation(IF conversationId # 0
                                         THEN conversationId
                                         ELSE NewConversationId, turn)
                  /\ store' = store @@ (conversation'.id :> conversation')
                  /\ pc' = "context"
                  /\ UNCHANGED <<result, inflight>>
    /\ UNCHANGED <<race, tokenizer, call, returned, config, traces, turn,
                   conversationId, userMessage, currentMessages, i, iterations,
                   assistantResponse, totalInputTokens, totalOutputTokens,
                   apiResponse, toolIdx, toolTraces, histVars>>

\* step 1: loadConversation(conversationId) or createNewConversation()
LoadOrCreate ==
    /\ pc = "init"
    /\ \E ioOk \in BOOLEAN :
        IF conversationId # 0
        THEN /\ UNCHANGED store
             /\ IF conversationId \notin DOMAIN store
                THEN Fail("Conversation not found") /\ UNCHANGED conversation
                ELSE IF ~ioOk
                THEN Fail("Failed to load conversation")
                     /\ UNCHANGED conversation
                ELSE /\ conversation' = store[conversationId]
                     /\ pc' = "context"
                     /\ UNCHANGED <<result, inflight>>
        ELSE IF ~ioOk
             THEN Fail("Failed to save conversation")
                  /\ UNCHANGED <<store, conversation>>
             ELSE /\ conversation' = NewConversation(NewConversationId, turn)
                  /\ store' = store @@ (NewConversationId :> conversation')
                  /\ pc' = "context"
                  /\ UNCHANGED <<result, inflight>>
    /\ UNCHANGED <<race, tokenizer, call, returned, config, traces, turn, conversationId, userMessage,
                   currentMessages, i, iterations, assistantResponse,
                   totalInputTokens, totalOutputTokens, apiResponse, toolIdx,
                   toolTraces, histVars>>

\* variant: the context manager is applied whatever the configuration says
ContextConfiguredAlways(cfg) == TRUE

\* step 2: if (config.maxConversationTokens)
ContextConfigured(cfg) == cfg.maxConversationTokens # 0

\* variant: a failed summarization is ignored and the turn goes on with the
\* conversation as loaded
ApplyContextLenient ==
    /\ pc = "context"
    /\ \E summaryOutcome \in SummaryOutcomes :
        LET contextResult ==
                IF ContextConfigured(config)
                THEN applyContextManagement(conversation,
                         [threshold |-> safetyLimits.summarizationThreshold,
                          keepRecentCount |-> KeepRecentCount],
                         summaryOutcome, turn)
                ELSE [success |-> TRUE, data |-> conversation, called |-> FALSE]
        IN /\ conversation' = IF contextResult.success
                               THEN contextResult.data ELSE conversation
           /\ currentMessages' =
                  Append(conversation'.messages,
                         [role |-> "user", isString |-> TRUE,
                          content |-> StringContent(userMessage)])
           /\ pc' = "loop"
           /\ UNCHANGED <<result, inflight>>
    /\ contextCalls' = IF ContextConfigured(config)
                       THEN contextCalls + 1 ELSE contextCalls
    /\ UNCHANGED <<race, tokenizer, call, returned, config, store, traces, turn, conversationId, userMessage, i,
                   iterations, assistantResponse, totalInputTokens,
                   totalOutputTokens, apiResponse, toolIdx, toolTraces,
                   storeAtStart, tracesAtStart, providerCalls, dispatchLog,
                   traceAttempts>>

\* steps 2 and 3: context management when configured, then the user message
\* is appended to the working list
ApplyContext ==
    /\ pc = "context"
    /\ \E summaryOutcome \in SummaryOutcomes :
        LET contextResult ==
                IF ContextConfigured(config)
                THEN applyContextManagement(conversation,
                         [threshold |-> safetyLimits.summarizationThreshold,
                          keepRecentCount |-> KeepRecentCount],
                         summaryOutcome, turn)
                ELSE [success |-> TRUE, data |-> conversation, called |-> FALSE]
        IN IF ~contextResult.success
           THEN /\ Fail("Context management failed")
                /\ UNCHANGED <<conversation, currentMessages>>
           ELSE /\ conversation' = contextResult.data
                /\ currentMessages' =
                       Append(conversation'.messages,
                              [role |-> "user", isString |-> TRUE,
                               content |-> StringContent(userMessage)])
                /\ pc' = "loop"
                /\ UNCHANGED <<result, inflight>>
    /\ contextCalls' = IF ContextConfigured(config)
                       THEN contextCalls + 1 ELSE contextCalls
    /\ UNCHANGED <<race, tokenizer, call, returned, config, store, traces, turn, conversationId, userMessage, i,
                   iterations, assistantResponse, totalInputTokens,
                   totalOutputTokens, apiResponse, toolIdx, toolTraces,
                   storeAtStart, tracesAtStart, providerCalls, dispatchLog,
                   traceAttempts>>

\* head of the for loop: the loop test, the pre-flight token check, and the
\* call of client.messages.create
LoopHead ==
    /\ pc = "loop"
    /\ IF LoopContinues(i, safetyLimits.maxIterations)
       THEN LET requestTokens ==
                    getTotalRequestTokens(systemPrompt, currentMessages, tools)
            IN IF OverHardLimit(requestTokens, safetyLimits.hardTokenLimit)
               THEN Fail("Context size exceeds hard limit")
                    /\ UNCHANGED providerCalls
               ELSE /\ pc' = "awaitApi"
                    /\ inflight' = {<<"api", i + 1>>}
                    /\ providerCalls' = providerCalls + 1
                    /\ UNCHANGED result
       ELSE /\ pc' = "save"
            /\ UNCHANGED <<result, inflight, providerCalls>>
    /\ LoopFrame
    /\ UNCHANGED <<race, tokenizer, call, returned, config, turn, conversationId, userMessage, localVars,
                   storeAtStart, tracesAtStart, dispatchLog, contextCalls,
                   traceAttempts>>

\* variant: the catch block persists the conversation as far as it got
ProviderThrowsSavesProgress ==
    /\ pc = "awaitApi"
    /\ Fail("Provider error")
    /\ store' = (conversation.id :>
                     [conversation EXCEPT !.messages = currentMessages])
                 @@ store
    /\ UNCHANGED traces
    /\ UNCHANGED <<race, tokenizer, call, returned, config, turn, conversationId, userMessage, localVars,
                   histVars>>

\* the provider call throws (transport, auth, rate limit): the catch block
ProviderThrows ==
    /\ pc = "awaitApi"
    /\ Fail("Provider error")
    /\ LoopFrame
    /\ UNCHANGED <<race, tokenizer, call, returned, config, turn, conversationId, userMessage, localVars,
                   histVars>>

\* variant: the iteration is numbered by the loop counter, from 0
IterationTraceZeroBased(iterationNumber, response, executed, now) ==
    [iterationNumber |-> iterationNumber - 1,
     inputTokens |-> response.input_tokens,
     outputTokens |-> response.output_tokens,
     totalTokens |-> response.input_tokens + response.output_tokens,
     toolsExecuted |-> executed,
     stopReason |-> response.stop_reason,
     timestamp |-> now]

\* the IterationTrace pushed at the end of an iteration
IterationTrace(iterationNumber, response, executed, now) ==
    [iterationNumber |-> iterationNumber,
     inputTokens |-> response.input_tokens,
     outputTokens |-> response.output_tokens,
     totalTokens |-> response.input_tokens + response.output_tokens,
     toolsExecuted |-> executed,
     stopReason |-> response.stop_reason,
     timestamp |-> now]

\* the provider call returns: usage is added up, text is accumulated; with
\* tool_use blocks the assistant message is appended and the tools are next,
\* without them the iteration is recorded, the final message appended and the
\* loop left
ProviderReturns ==
    /\ pc = "awaitApi"
    /\ \E r \in Responses :
        LET response == [r EXCEPT !.content = ResponseContent(r, turn, i + 1)]
            textBlocks == FilterSeq(response.content, "text")
            toolUseBlocks == FilterSeq(response.content, "tool_use")
            assistantMessage ==
                [role |-> "assistant", isString |-> FALSE,
                 content |-> response.content]
        IN /\ apiResponse' = response
           /\ totalInputTokens' = totalInputTokens + response.input_tokens
           /\ totalOutputTokens' = totalOutputTokens + response.output_tokens
           /\ assistantResponse' = AccumulateText(assistantResponse, textBlocks)
           /\ currentMessages' = Append(currentMessages, assistantMessage)
           /\ toolTraces' = <<>>
           /\ IF Len(toolUseBlocks) > 0
              THEN /\ pc' = "tools"
                   /\ toolIdx' = 1
                   /\ UNCHANGED iterations
              ELSE /\ pc' = "save"
                   /\ toolIdx' = 0
                   /\ iterations' =
                          Append(iterations,
                                 IterationTrace(i + 1, response, <<>>, turn))
    /\ inflight' = {}
    /\ LoopFrame
    /\ UNCHANGED <<race, tokenizer, call, returned, config, turn, conversationId, userMessage, conversation, i,
                   result, histVars>>

\* the tool_use blocks of the response being processed
toolUseBlocks == FilterSeq(apiResponse.content, "tool_use")

\* await executeToolCall(toolUse): the for-of takes the next block only when
\* nothing is awaited
ToolMayStart(awaited) == awaited = {}

RECURSIVE BlockIds(_)
BlockIds(blocks) ==
    IF blocks = <<>> THEN <<>> ELSE <<Head(blocks).id>> \o BlockIds(Tail(blocks))

\* variant: all remaining tools are started together (Promise.all)
DispatchToolTogether ==
    /\ pc = "tools"
    /\ toolIdx \in 1..Len(toolUseBlocks)
    /\ ToolMayStart(inflight)
    /\ LET ids == BlockIds(SubSeq(toolUseBlocks, toolIdx, Len(toolUseBlocks)))
       IN /\ inflight' = {<<"tool", ids[k]>> : k \in 1..Len(ids)}
          /\ dispatchLog' = dispatchLog \o ids
    /\ pc' = "awaitTool"
    /\ LoopFrame
    /\ UNCHANGED <<race, tokenizer, call, returned, config, turn, conversationId, userMessage, localVars,
                   result, storeAtStart, tracesAtStart, providerCalls,
                   contextCalls, traceAttempts>>

\* the tool at the loop position is handed to the tool layer
DispatchTool ==
    /\ pc = "tools"
    /\ toolIdx \in 1..Len(toolUseBlocks)
    /\ ToolMayStart(inflight)
    /\ inflight' = inflight \cup {<<"tool", toolUseBlocks[toolIdx].id>>}
    /\ dispatchLog' = Append(dispatchLog, toolUseBlocks[toolIdx].id)
    /\ pc' = "awaitTool"
    /\ LoopFrame
    /\ UNCHANGED <<race, tokenizer, call, returned, config, turn, conversationId, userMessage, localVars,
                   result, storeAtStart, tracesAtStart, providerCalls,
                   contextCalls, traceAttempts>>

\* executeToolCall returns: the trace is pushed and the tool result appended;
\* after the last tool the iteration is recorded and the iteration limit
\* checked
ToolReturns ==
    /\ pc = "awaitTool"
    /\ LET toolUse == toolUseBlocks[toolIdx] IN
       \E outcome \in IF toolUse.name \in toolRegistry
                      THEN HandlerOutcomes(toolUse.name) ELSE {"none"} :
        LET trace == executeToolCall(toolUse, outcome) IN
        /\ toolTraces' = Append(toolTraces, trace)
        /\ currentMessages' =
               Append(currentMessages, ToolResultMessage(toolUse, trace))
        /\ inflight' = inflight \ {<<"tool", toolUse.id>>}
        /\ IF toolIdx < Len(toolUseBlocks)
           THEN /\ toolIdx' = toolIdx + 1
                /\ pc' = "tools"
                /\ UNCHANGED <<iterations, i, result>>
           ELSE /\ toolIdx' = 0
                /\ iterations' =
                       Append(iterations,
                              IterationTrace(i + 1, apiResponse, toolTraces',
                                             turn))
                /\ IF HitMaxIterations(i + 1, safetyLimits.maxIterations)
                   THEN /\ pc' = "done"
                        /\ result' =
                               [success |-> FALSE,
                                error |-> "Maximum iteration limit reached"]
                        /\ UNCHANGED i
                   ELSE /\ i' = i + 1
                        /\ pc' = "loop"
                        /\ UNCHANGED result
    /\ LoopFrame
    /\ UNCHANGED <<race, tokenizer, call, returned, config, turn, conversationId, userMessage, conversation,
                   assistantResponse, totalInputTokens, totalOutputTokens,
                   apiResponse, histVars>>

\* variant: the total of the trace counts the input tokens only
BuildTraceInputOnly ==
    [conversationId |-> conversation.id,
     messageId |-> turn,
     userMessage |-> userMessage,
     assistantResponse |-> assistantResponse,
     startTime |-> turn,
     totalInputTokens |-> totalInputTokens,
     totalOutputTokens |-> totalOutputTokens,
     totalTokens |-> totalInputTokens,
     totalCostUsd |-> calculateCost(totalInputTokens, totalOutputTokens,
                                    config.model),
     iterations |-> iterations,
     model |-> config.model]

\* step 5: the execution trace of the turn
BuildTrace ==
    [conversationId |-> conversation.id,
     messageId |-> turn,
     userMessage |-> userMessage,
     assistantResponse |-> assistantResponse,
     startTime |-> turn,
     totalInputTokens |-> totalInputTokens,
     totalOutputTokens |-> totalOutputTokens,
     totalTokens |-> totalInputTokens + totalOutputTokens,
     totalCostUsd |-> calculateCost(totalInputTokens, totalOutputTokens,
                                    config.model),
     iterations |-> iterations,
     model |-> config.model]

\* variant: the summary history is not carried into the persisted conversation
UpdatedConversationNoSummaries ==
    [conversation EXCEPT
        !.lastMessageAt = turn,
        !.messages = currentMessages,
        !.tokenCount =
            getTotalRequestTokens(systemPrompt, currentMessages, tools),
        !.summaries = <<>>]

\* step 6: the conversation to persist
UpdatedConversation ==
    [conversation EXCEPT
        !.lastMessageAt = turn,
        !.messages = currentMessages,
        !.tokenCount =
            getTotalRequestTokens(systemPrompt, currentMessages, tools)]

\* step 7: saveConversation(updatedConversation); a failed save returns it
SaveConversation ==
    /\ pc = "save"
    /\ \E ioOk \in BOOLEAN :
        IF ioOk
        THEN /\ store' = (conversation.id :> UpdatedConversation) @@ store
             /\ pc' = "saveTrace"
             /\ UNCHANGED <<result, inflight>>
        ELSE /\ Fail("Failed to save conversation")
             /\ UNCHANGED store
    /\ UNCHANGED <<race, tokenizer, call, returned, config, traces, turn, conversationId, userMessage,
                   localVars, histVars>>

\* variant: a failed trace save is returned as the turn's failure
SaveTraceFatal ==
    /\ pc = "saveTrace"
    /\ \E ioOk \in BOOLEAN :
        /\ traces' = IF ioOk THEN Append(traces, BuildTrace) ELSE traces
        /\ result' =
               IF ioOk
               THEN [success |-> TRUE,
                     data |-> [response |-> assistantResponse,
                               updatedConversation |-> UpdatedConversation,
                               usage |-> [input_tokens |-> totalInputTokens,
                                          output_tokens |-> totalOutputTokens],
                               trace |-> BuildTrace]]
               ELSE [success |-> FALSE, error |-> "Failed to save trace"]
    /\ pc' = "done"
    /\ traceAttempts' = traceAttempts + 1
    /\ UNCHANGED <<race, tokenizer, call, returned, config, store, turn, conversationId, userMessage,
                   localVars, inflight, storeAtStart, tracesAtStart,
                   providerCalls, dispatchLog, contextCalls>>

\* steps 8 and 9: saveTrace(trace), whose failure is only logged, and the
\* successful return
SaveTrace ==
    /\ pc = "saveTrace"
    /\ \E ioOk \in BOOLEAN :
        traces' = IF ioOk THEN Append(traces, BuildTrace) ELSE traces
    /\ pc' = "done"
    /\ result' =
           [success |-> TRUE,
            data |-> [response |-> assistantResponse,
                      updatedConversation |-> UpdatedConversation,
                      usage |-> [input_tokens |-> totalInputTokens,
                                 output_tokens |-> totalOutputTokens],
                      trace |-> BuildTrace]]
    /\ traceAttempts' = traceAttempts + 1
    /\ UNCHANGED <<race, tokenizer, call, returned, config, store, turn, conversationId, userMessage,
                   localVars, inflight, storeAtStart, tracesAtStart,
                   providerCalls, dispatchLog, contextCalls>>

\* one step of the running turn
TurnStep ==
    \/ LoadOrCreate
    \/ ApplyContext
    \/ LoopHead
    \/ ProviderThrows
    \/ ProviderReturns
    \/ DispatchTool
    \/ ToolReturns
    \/ SaveConversation
    \/ SaveTrace

Next ==
    \/ StartTurn
    \/ TurnStep

Spec == Init /\ [][Next]_vars

\* the model identifier only selects the price of the trace, so termination
\* is examined for one model
LiveInit == Init /\ config.model = "claude-3-5-haiku-20241022"

\* every awaited call returns and the code between two awaits runs on
LiveSpec == LiveInit /\ [][Next]_vars /\ WF_vars(TurnStep)

\* ------------------------------------ the context manager called by itself
\* no turn is running: the state of the agent when a function is called by
\* itself
TurnAtRest ==
    /\ config = [safetyLimits |-> [maxIterations |-> MaxIter,
                                   hardTokenLimit |-> 1000,
                                   summarizationThreshold |-> DefaultThreshold],
                 maxConversationTokens |-> MaxConversationTokens,
                 model |-> "claude-3-5-haiku-20241022"]
    /\ store = (ExistingId :> StoredConversation(ExistingId, Transcript(2)))
    /\ traces = <<>>
    /\ turn = 0
    /\ pc = "idle"
    /\ conversationId = 0
    /\ userMessage = <<>>
    /\ conversation = NoConversation
    /\ currentMessages = <<>>
    /\ i = 0
    /\ iterations = <<>>
    /\ assistantResponse = <<>>
    /\ totalInputTokens = 0
    /\ totalOutputTokens = 0
    /\ apiResponse = NoResponse
    /\ toolIdx = 0
    /\ toolTraces = <<>>
    /\ inflight = {}
    /\ result = NoResult
    /\ storeAtStart = store
    /\ tracesAtStart = <<>>
    /\ providerCalls = 0
    /\ dispatchLog = <<>>
    /\ contextCalls = 0
    /\ traceAttempts = 0

ContextInit ==
    /\ call \in Calls
    /\ returned = NoReturn
    /\ race = NoRace
    /\ tokenizer = NoTokenizer
    /\ TurnAtRest

\* needsSummarization(conversation, threshold)
CallNeedsSummarization ==
    /\ returned = NoReturn
    /\ returned' = [fn |-> "needsSummarization",
                    value |-> needsSummarization(call.conversation,
                                                 call.threshold)]
    /\ UNCHANGED <<turnVars, call, race, tokenizer>>

\* summarizeOldMessages(messages, keepRecentCount, apiKey, model)
CallSummarizeOldMessages ==
    /\ returned = NoReturn
    /\ returned' = [fn |-> "summarizeOldMessages",
                    value |-> summarizeOldMessages(call.conversation.messages,
                                  call.keepRecentCount, call.summaryOutcome,
                                  1)]
    /\ UNCHANGED <<turnVars, call, race, tokenizer>>

\* applyContextManagement(conversation, config)
CallApplyContextManagement ==
    /\ returned = NoReturn
    /\ returned' = [fn |-> "applyContextManagement",
                    value |-> applyContextManagement(call.conversation,
                                  [threshold |-> call.threshold,
                                   keepRecentCount |-> call.keepRecentCount],
                                  call.summaryOutcome, 1)]
    /\ UNCHANGED <<turnVars, call, race, tokenizer>>

ContextNext ==
    \/ CallNeedsSummarization
    \/ CallSummarizeOldMessages
    \/ CallApplyContextManagement

ContextSpec == ContextInit /\ [][ContextNext]_vars

\* ------------------------------------------------------------------ results
Succeeded == pc = "done" /\ result.success
Failed == pc = "done" /\ ~result.success
FailedWith(message) == Failed /\ result.error = message

ErrIterationLimit == "Maximum iteration limit reached"
ErrContextOverflow == "Context size exceeds hard limit"
ErrProvider == "Provider error"
ErrContext == "Context management failed"

Running == pc \notin {"idle", "done"}

\* every recorded iteration of the turn had a tool request, and every
\* provider call of the turn returned a response
EveryResponseRequestedTools ==
    /\ Len(iterations) >= 1
    /\ Len(iterations) = providerCalls
    /\ \A k \in 1..Len(iterations) : iterations[k].toolsExecuted # <<>>

\* the estimate of the pre-flight check for the working message list
RequestTokens == getTotalRequestTokens(systemPrompt, currentMessages, tools)

\* ------------------------------------------------------------------- claims
\* C1: one call of processMessage issues at most maxIterations provider calls
\* from the iteration loop, and a started call reaches a terminal state.
C1_BoundedCallsThenTerminal ==
    /\ [](providerCalls <= safetyLimits.maxIterations)
    /\ (Running ~> pc = "done")

C1_Witness ==
    /\ pc = "done"
    /\ safetyLimits.maxIterations = 2
    /\ providerCalls = 2

\* C2 as stated: a turn whose responses all request a tool ends with the
\* iteration-limit error after exactly maxIterations provider calls.
C2_Original ==
    (pc = "done" /\ EveryResponseRequestedTools)
        => /\ FailedWith(ErrIterationLimit)
           /\ providerCalls = safetyLimits.maxIterations

\* C2 amended: a turn whose responses all request a tool never ends in
\* Success; it ends with the iteration-limit error exactly when all
\* maxIterations provider calls were made, and otherwise ends earlier with
\* the pre-flight ContextOverflow error of a later iteration.
C2_ToolLoopEndsInLimitOrOverflow ==
    (pc = "done" /\ EveryResponseRequestedTools)
        => /\ Failed
           /\ result.error \in {ErrIterationLimit, ErrContextOverflow}
           /\ FailedWith(ErrIterationLimit)
                  <=> providerCalls = safetyLimits.maxIterations
           /\ FailedWith(ErrContextOverflow)
                  <=> providerCalls < safetyLimits.maxIterations

C2_Witness ==
    /\ FailedWith(ErrIterationLimit)
    /\ EveryResponseRequestedTools
    /\ providerCalls = 2

\* C3: at the head of an iteration the provider call is issued iff the
\* estimate for the working list is at most hardTokenLimit; when it is
\* greater the turn fails with ContextOverflow and issues no call.
C3_PreflightGatesProviderCall ==
    /\ [](pc = "awaitApi" => RequestTokens <= safetyLimits.hardTokenLimit)
    /\ [](FailedWith(ErrContextOverflow) => inflight = {})
    /\ [][(pc = "loop" /\ i < safetyLimits.maxIterations)
            => IF RequestTokens <= safetyLimits.hardTokenLimit
               THEN /\ pc' = "awaitApi"
                    /\ inflight' = {<<"api", i + 1>>}
                    /\ providerCalls' = providerCalls + 1
               ELSE /\ pc' = "done"
                    /\ result' = [success |-> FALSE,
                                  error |-> ErrContextOverflow]
                    /\ inflight' = {}
                    /\ providerCalls' = providerCalls
                    /\ dispatchLog' = dispatchLog
                    /\ store' = store]_vars

C3_Witness ==
    /\ FailedWith(ErrContextOverflow)
    /\ RequestTokens > safetyLimits.hardTokenLimit
    /\ providerCalls = 1

\* C4 as stated: a successful turn left its loop through an iteration whose
\* response had no tool request, so it made at least one provider call and
\* its last message is that assistant response.
C4_Original ==
    Succeeded
        => /\ providerCalls >= 1
           /\ iterations # <<>>
           /\ iterations[Len(iterations)].toolsExecuted = <<>>
           /\ FilterSeq(apiResponse.content, "tool_use") = <<>>
           /\ currentMessages[Len(currentMessages)] =
                  [role |-> "assistant", isString |-> FALSE,
                   content |-> apiResponse.content]

\* the four failures of a turn that C5 names
TurnFailures ==
    {ErrContext, ErrContextOverflow, ErrProvider, ErrIterationLimit}

\* C5: when a turn on an existing conversation id fails in context
\* management, in the pre-flight check, in the provider or at the iteration
\* limit, the conversation stored under that id is what it was before the
\* turn.
C5_FailedTurnLeavesConversation ==
    (Failed /\ result.error \in TurnFailures
            /\ conversationId \in DOMAIN storeAtStart)
        => /\ conversationId \in DOMAIN store
           /\ store[conversationId] = storeAtStart[conversationId]

C5_Witness ==
    /\ FailedWith(ErrIterationLimit)
    /\ conversationId = ExistingId
    /\ Len(currentMessages) > Len(storeAtStart[ExistingId].messages) + 3
    /\ store[ExistingId] = storeAtStart[ExistingId]

\* C6 as stated: a turn that ends in Failure has written nothing to the
\* conversation store, also when it was called without a conversation id.
C6_Original == Failed => store = storeAtStart

\* C7 as stated: the execution trace is handed to the trace sink after a
\* successful turn and after a turn that ends with the iteration-limit
\* error.
C7_Original ==
    (Succeeded \/ FailedWith(ErrIterationLimit)) => traceAttempts >= 1

\* C8 as stated: a turn that fails with ContextOverflow has made no provider
\* call, whichever iteration the check failed in.
C8_Original == FailedWith(ErrContextOverflow) => providerCalls = 0

\* C8 amended: a turn that fails with ContextOverflow in iteration k has made
\* exactly k-1 provider calls, all of them returned and recorded, fewer than
\* maxIterations, and none for the iteration whose estimate was strictly
\* greater than hardTokenLimit; it has made no call only when k = 1.
C8_OverflowAfterEarlierCallsOnly ==
    FailedWith(ErrContextOverflow)
        => /\ providerCalls = i
           /\ Len(iterations) = i
           /\ providerCalls < safetyLimits.maxIterations
           /\ inflight = {}
           /\ RequestTokens > safetyLimits.hardTokenLimit

C8_Witness ==
    /\ FailedWith(ErrContextOverflow)
    /\ providerCalls = 1
    /\ i = 1

\* the messages the loop appended after the user message
TurnMessages ==
    SubSeq(currentMessages, Len(conversation.messages) + 2,
           Len(currentMessages))

RECURSIVE RequestedIds(_)
\* call identifiers of the tool_use blocks of a message list, in order
RequestedIds(messages) ==
    IF messages = <<>> THEN <<>>
    ELSE (IF Head(messages).isString THEN <<>>
          ELSE BlockIds(FilterSeq(Head(messages).content, "tool_use")))
         \o RequestedIds(Tail(messages))

RECURSIVE ResultIds(_)
\* call identifiers of the tool_result blocks of a message list, in order
ResultIds(messages) ==
    IF messages = <<>> THEN <<>>
    ELSE (IF Head(messages).isString THEN <<>>
          ELSE [k \in 1..Len(FilterSeq(Head(messages).content, "tool_result"))
                   |-> FilterSeq(Head(messages).content,
                                 "tool_result")[k].tool_use_id])
         \o ResultIds(Tail(messages))

RECURSIVE AssistantMessages(_)
AssistantMessages(messages) ==
    IF messages = <<>> THEN <<>>
    ELSE (IF Head(messages).role = "assistant" THEN <<Head(messages)>>
          ELSE <<>>) \o AssistantMessages(Tail(messages))

IsPrefix(s, t) == Len(s) <= Len(t) /\ SubSeq(t, 1, Len(s)) = s

ToolNames(blocks) == [k \in 1..Len(blocks) |-> blocks[k].name]
TraceNames(executed) == [k \in 1..Len(executed) |-> executed[k].toolName]

\* C9: in one iteration the tools are dispatched one at a time in the order
\* of the response: at most one call is awaited, the tool at position k+1 is
\* dispatched only when the first k have a trace, every request gets exactly
\* one trace, and the traces are in request order.
C9_ToolsSequentialInOrder ==
    /\ Cardinality(inflight) <= 1
    /\ pc \in {"tools", "awaitTool"}
           => /\ Len(toolTraces) = toolIdx - 1
              /\ TraceNames(toolTraces)
                     = SubSeq(ToolNames(toolUseBlocks), 1, toolIdx - 1)
              /\ pc = "awaitTool"
                     => inflight = {<<"tool", toolUseBlocks[toolIdx].id>>}
              /\ pc = "tools" => inflight = {}
    /\ IsPrefix(dispatchLog, RequestedIds(TurnMessages))
    /\ \A k \in 1..Len(iterations) :
           TraceNames(iterations[k].toolsExecuted)
               = ToolNames(FilterSeq(AssistantMessages(TurnMessages)[k].content,
                                     "tool_use"))

C9_Witness ==
    /\ pc = "loop"
    /\ Len(iterations) = 1
    /\ Len(iterations[1].toolsExecuted) = 2
    /\ TraceNames(iterations[1].toolsExecuted) = <<"list_tasks", "send_email">>
    /\ Len(dispatchLog) = 2

\* C10: the provider call of an iteration is issued only when every earlier
\* provider call has returned and every tool dispatched so far has returned
\* and has its correlated result in the message list; at most one call,
\* provider or tool, is awaited at any time.
C10_NoPipelining ==
    /\ Cardinality(inflight) <= 1
    /\ (\E c \in inflight : c[1] = "api") <=> pc = "awaitApi"
    /\ pc = "awaitApi"
           => /\ inflight = {<<"api", i + 1>>}
              /\ providerCalls = i + 1
              /\ Len(iterations) = i
              /\ ResultIds(TurnMessages) = dispatchLog
              /\ RequestedIds(TurnMessages) = dispatchLog

C10_Witness ==
    /\ pc = "awaitApi"
    /\ i = 1
    /\ Len(dispatchLog) = 2

\* the tool-result message the code appends for a failed call
ErrorResultMessage(toolUse, trace) ==
    [role |-> "user", isString |-> FALSE,
     content |-> <<[type |-> "tool_result", tool_use_id |-> toolUse.id,
                    content |-> <<"Error:">> \o trace.output.error]>>]

IsResultFor(message, id) ==
    /\ message.role = "user"
    /\ ~message.isString
    /\ Len(message.content) = 1
    /\ message.content[1].type = "tool_result"
    /\ message.content[1].tool_use_id = id

\* call identifiers requested by one message
RequestsOf(message) ==
    IF message.isString THEN <<>>
    ELSE BlockIds(FilterSeq(message.content, "tool_use"))

\* position of the last assistant message of a list, 0 when there is none
LastAssistant(messages) ==
    LET ps == {p \in 1..Len(messages) : messages[p].role = "assistant"}
    IN IF ps = {} THEN 0 ELSE CHOOSE p \in ps : \A q \in ps : q <= p

\* C12: in the messages the loop appended, every assistant message with n
\* tool requests is immediately followed by n tool-result messages, one per
\* request in request order, each carrying its request's call identifier
\* (while the tools of the last response are running, by the results of the
\* tools that have returned), and every tool-result message answers a
\* request of the nearest preceding assistant message.
C12_ResultsFollowRequests ==
    LET msgs == TurnMessages
        lastA == LastAssistant(msgs)
    IN /\ \A p \in 1..Len(msgs) :
              msgs[p].role = "assistant"
                  => LET ids == RequestsOf(msgs[p])
                         answered ==
                             IF pc \in {"tools", "awaitTool"} /\ p = lastA
                             THEN Len(toolTraces) ELSE Len(ids)
                     IN /\ p + answered <= Len(msgs)
                        /\ \A k \in 1..answered :
                               IsResultFor(msgs[p + k], ids[k])
                        /\ p + answered < Len(msgs)
                               => msgs[p + answered + 1].role = "assistant"
       /\ \A q \in 1..Len(msgs) :
              msgs[q].role = "user"
                  => \E p \in 1..(q - 1) :
                         /\ msgs[p].role = "assistant"
                         /\ \A m \in (p + 1)..q : msgs[m].role = "user"
                         /\ q - p <= Len(RequestsOf(msgs[p]))
                         /\ IsResultFor(msgs[q], RequestsOf(msgs[p])[q - p])

\* a response with two requests was answered by two results and followed by
\* the final response
C12_Witness ==
    /\ Succeeded
    /\ Len(TurnMessages) = 4
    /\ Len(RequestsOf(TurnMessages[1])) = 2
    /\ IsResultFor(TurnMessages[2], RequestsOf(TurnMessages[1])[1])
    /\ IsResultFor(TurnMessages[3], RequestsOf(TurnMessages[1])[2])
    /\ TurnMessages[4].role = "assistant"

\* number of tool requests of the k-th response of the turn
RequestsOfResponse(k) == Len(RequestsOf(AssistantMessages(TurnMessages)[k]))

\* C13: the trace returned by a successful turn with n provider calls has
\* exactly n IterationTraces numbered 1..n in order; IterationTrace k lists
\* as many ToolInvocationTraces as response k had tool requests, and the
\* last one lists none.
C13_TraceIterationsMatchCalls ==
    Succeeded
        => LET its == result.data.trace.iterations
               n == providerCalls
           IN /\ Len(its) = n
              /\ Len(AssistantMessages(TurnMessages)) = n
              /\ \A k \in 1..n :
                     /\ its[k].iterationNumber = k
                     /\ Len(its[k].toolsExecuted) = RequestsOfResponse(k)
                     /\ k = n => its[k].toolsExecuted = <<>>

\* one tool call in iteration 1, none in iteration 2
C13_Witness ==
    /\ Succeeded
    /\ providerCalls = 2
    /\ Len(result.data.trace.iterations) = 2
    /\ Len(result.data.trace.iterations[1].toolsExecuted) = 1
    /\ result.data.trace.iterations[2].toolsExecuted = <<>>

ErrSaveConversation == "Failed to save conversation"

\* C14: the conversation is saved before the trace is handed to the trace
\* sink; when the conversation save fails the turn returns Failure and the
\* trace is never saved; when it succeeds the turn returns Success whether
\* the trace save succeeds or fails.
C14_ConversationSavedBeforeTrace ==
    /\ [](pc = "saveTrace"
              => /\ store[conversation.id] = UpdatedConversation
                 /\ traceAttempts = 0
                 /\ traces = tracesAtStart)
    /\ [](traceAttempts > 0 => store[conversation.id] = UpdatedConversation)
    /\ [](FailedWith(ErrSaveConversation)
              => traceAttempts = 0 /\ traces = tracesAtStart)
    /\ [][pc = "save"
            => \/ /\ pc' = "saveTrace"
                  /\ store' = (conversation.id :> UpdatedConversation) @@ store
                  /\ traces' = traces
                  /\ traceAttempts' = 0
               \/ /\ pc' = "done"
                  /\ result' = [success |-> FALSE,
                                error |-> ErrSaveConversation]
                  /\ traces' = traces
                  /\ traceAttempts' = 0]_vars
    /\ [][pc = "saveTrace"
            => /\ pc' = "done"
               /\ result'.success
               /\ store' = store
               /\ traceAttempts' = 1
               /\ traces' \in {traces, Append(traces, result'.data.trace)}]_vars

\* the conversation was saved, the trace save failed, the turn succeeded
C14_Witness ==
    /\ Succeeded
    /\ traceAttempts = 1
    /\ traces = tracesAtStart
    /\ store[conversation.id] = result.data.updatedConversation
    /\ store # storeAtStart

ContextEnabled == config.maxConversationTokens # 0

C15_WitnessTooFew ==
    /\ FailedWith(ErrContext)
    /\ Len(conversation.messages) <= KeepRecentCount
    /\ conversation.tokenCount >= safetyLimits.summarizationThreshold

\* the arguments and the value of the call examined in ContextSpec
Returned(fn) == returned.fn = fn
Messages == call.conversation.messages

\* C16: needsSummarization(conversation, threshold) is true exactly when
\* conversation.tokenCount >= threshold, a conversation without tokenCount
\* counting as 0, and the call leaves its argument and all other state as
\* they were.
C16_NeedsSummarizationIsThresholdTest ==
    /\ [](Returned("needsSummarization")
              => (returned.value
                     <=> IF "tokenCount" \in DOMAIN call.conversation
                         THEN call.conversation.tokenCount >= call.threshold
                         ELSE 0 >= call.threshold))
    /\ [][Returned("needsSummarization")'
              => call' = call /\ UNCHANGED turnVars]_vars

\* a count equal to the threshold needs summarization
C16_Witness ==
    /\ Returned("needsSummarization")
    /\ "tokenCount" \in DOMAIN call.conversation
    /\ call.conversation.tokenCount = call.threshold
    /\ returned.value

\* a conversation without tokenCount does not reach a positive threshold
C16_WitnessMissing ==
    /\ Returned("needsSummarization")
    /\ "tokenCount" \notin DOMAIN call.conversation
    /\ call.threshold > 0
    /\ ~returned.value

ErrNotEnough == "Not enough messages to summarize"

\* C17: summarizeOldMessages returns the failure 'Not enough messages to
\* summarize' without calling the provider whenever messages.length <=
\* keepRecentCount, and when messages.length > keepRecentCount it calls the
\* provider and never fails for that reason.
C17_InsufficientHistoryIffTooFew ==
    Returned("summarizeOldMessages")
        => LET r == returned.value IN
           IF Len(Messages) <= call.keepRecentCount
           THEN /\ ~r.success
                /\ r.error = ErrNotEnough
                /\ ~r.called
           ELSE /\ r.called
                /\ r.success \/ r.error # ErrNotEnough

\* a list of exactly keepRecentCount messages is refused
C17_Witness ==
    /\ Returned("summarizeOldMessages")
    /\ Len(Messages) = call.keepRecentCount
    /\ call.keepRecentCount = MaxKeep
    /\ call.summaryOutcome.ok
    /\ ~returned.value.success
    /\ ~returned.value.called

\* C18 as stated: for 0 <= keepRecentCount < messages.length a successful
\* summarizeOldMessages folds exactly the first messages.length -
\* keepRecentCount messages into the summary request and returns
\* keepRecentCount + 1 messages: the synthetic user-role summary message
\* followed by the last keepRecentCount messages, unchanged and in order.
C18_Original ==
    (Returned("summarizeOldMessages") /\ returned.value.success)
        => LET n == Len(Messages)
               k == call.keepRecentCount
               out == returned.value.data.summarizedMessages
           IN /\ 0 <= k /\ k < n
              /\ returned.value.conversationText
                     = ConversationText(SubSeq(Messages, 1, n - k))
              /\ Len(out) = k + 1
              /\ out[1].role = "user"
              /\ out[1].isString
              /\ SubSeq(out, 2, Len(out)) = SubSeq(Messages, n - k + 1, n)

\* C19: when needsSummarization is false for the configured threshold,
\* applyContextManagement succeeds with the conversation it was given, with
\* the same messages, tokenCount and summaries (present or absent as in the
\* input), and the provider is not called.
C19_NoOpBelowThreshold ==
    (Returned("applyContextManagement")
         /\ ~(IF "tokenCount" \in DOMAIN call.conversation
              THEN call.conversation.tokenCount >= call.threshold
              ELSE 0 >= call.threshold))
        => /\ returned.value.success
           /\ ~returned.value.called
           /\ returned.value.data = call.conversation
           /\ DOMAIN returned.value.data = DOMAIN call.conversation

\* a conversation below the threshold that has enough messages to be
\* summarized is returned as it is
C19_Witness ==
    /\ Returned("applyContextManagement")
    /\ "tokenCount" \in DOMAIN call.conversation
    /\ call.conversation.tokenCount = 9
    /\ call.threshold = 10
    /\ Len(Messages) > call.keepRecentCount
    /\ call.summaryOutcome.ok
    /\ returned.value.data = call.conversation
    /\ ~returned.value.called

\* the summaries of a conversation, conversation.summaries || []
SummariesOf(c) == IF "summaries" \in DOMAIN c THEN c.summaries ELSE <<>>

\* C20: when applyContextManagement summarizes successfully, the returned
\* conversation has the id of the input, the messages returned by
\* summarizeOldMessages, and the input's summaries followed by exactly one new
\* SummaryMetadata with originalMessageCount = the input's message count and
\* messagesKept = keepRecentCount; the input conversation is left as it was.
C20_SummarizedConversation ==
    /\ []((Returned("applyContextManagement")
               /\ returned.value.success /\ returned.value.called)
            => LET c == call.conversation
                   d == returned.value.data
                   s == summarizeOldMessages(c.messages, call.keepRecentCount,
                                             call.summaryOutcome, 1)
                   prev == SummariesOf(c)
               IN /\ d.id = c.id
                  /\ d.startedAt = c.startedAt
                  /\ s.success
                  /\ d.messages = s.data.summarizedMessages
                  /\ Len(d.summaries) = Len(prev) + 1
                  /\ SubSeq(d.summaries, 1, Len(prev)) = prev
                  /\ d.summaries[Len(prev) + 1].originalMessageCount
                         = Len(c.messages)
                  /\ d.summaries[Len(prev) + 1].messagesKept
                         = call.keepRecentCount)
    /\ [][Returned("applyContextManagement")' => call' = call]_vars

\* a conversation at the threshold with one earlier summary and more than
\* keepRecentCount > 0 messages was summarized
C20_Witness ==
    /\ Returned("applyContextManagement")
    /\ returned.value.success
    /\ returned.value.called
    /\ SummariesOf(call.conversation) = <<EarlierSummary>>
    /\ call.keepRecentCount = 2
    /\ Len(Messages) = 4
    /\ Len(returned.value.data.summaries) = 2
    /\ Len(returned.value.data.messages) = 3
    /\ call.conversation.messages = History(4)

\* C21: the summaries persisted under a conversation id only grow by
\* appending: every write of the store keeps the summaries stored before it
\* as a prefix, so the summaries stored after a turn start with those stored
\* before it, in the same order.
C21_SummariesOnlyAppended ==
    /\ [](\A id \in DOMAIN storeAtStart :
              /\ id \in DOMAIN store
              /\ IsPrefix(storeAtStart[id].summaries, store[id].summaries))
    /\ [][\A id \in DOMAIN store :
              /\ id \in DOMAIN store'
              /\ IsPrefix(store[id].summaries, store'[id].summaries)]_vars

\* a turn summarized a conversation that already had one summary and saved it
C21_Witness ==
    /\ Succeeded
    /\ conversationId = ExistingId
    /\ storeAtStart[ExistingId].summaries = <<EarlierSummary>>
    /\ Len(store[ExistingId].summaries) = 2
    /\ store[ExistingId].summaries[1] = EarlierSummary
    /\ store[ExistingId].summaries[2].messagesKept = KeepRecentCount

\* the two token estimates the code computes for a message list
Estimate(estimator, messages) ==
    IF estimator = "messages" THEN countMessageTokens(messages)
    ELSE getTotalRequestTokens(systemPrompt, messages, tools)

\* the turn summarized the conversation it loaded
SummarizedThisTurn ==
    /\ conversationId \in DOMAIN storeAtStart
    /\ Len(conversation.summaries)
           > Len(storeAtStart[conversationId].summaries)

\* C22 as stated: the conversation returned by a summarization and the
\* conversation produced by the successful turn that follows it both carry
\* a tokenCount equal to the estimate of their messages by one and the same
\* estimator.
C22_Original ==
    (Succeeded /\ SummarizedThisTurn)
        => \E estimator \in {"messages", "request"} :
               /\ conversation.tokenCount
                      = Estimate(estimator, conversation.messages)
               /\ result.data.updatedConversation.tokenCount
                      = Estimate(estimator,
                                 result.data.updatedConversation.messages)

\* the sum of one counter over the iterations of a trace
SumIterations(its, field) == SumSeq([k \in 1..Len(its) |-> its[k][field]])

\* C23: in the trace of a successful turn totalInputTokens and
\* totalOutputTokens are the sums of the iterations' inputTokens and
\* outputTokens, totalTokens is their sum, every IterationTrace has
\* totalTokens = inputTokens + outputTokens, and the returned usage counters
\* are the trace totals.
C23_TraceTotalsAreSums ==
    Succeeded
        => LET trace == result.data.trace
               its == trace.iterations
           IN /\ trace.totalInputTokens = SumIterations(its, "inputTokens")
              /\ trace.totalOutputTokens = SumIterations(its, "outputTokens")
              /\ trace.totalTokens
                     = trace.totalInputTokens + trace.totalOutputTokens
              /\ \A k \in 1..Len(its) :
                     its[k].totalTokens
                         = its[k].inputTokens + its[k].outputTokens
              /\ result.data.usage.input_tokens = trace.totalInputTokens
              /\ result.data.usage.output_tokens = trace.totalOutputTokens

\* two iterations with different usage were added up
C23_Witness ==
    /\ Succeeded
    /\ Len(result.data.trace.iterations) = 2
    /\ result.data.trace.totalInputTokens = 170
    /\ result.data.trace.totalOutputTokens = 11
    /\ result.data.trace.totalTokens = 181

PricedModel == config.model \in DOMAIN MODEL_PRICING

KnownErrors ==
    {ErrContext, ErrContextOverflow, ErrProvider, ErrIterationLimit,
     ErrSaveConversation, "Conversation not found",
     "Failed to load conversation"}

ErrNotFound == "Conversation not found"
ErrLoad == "Failed to load conversation"

\* C26: with a conversation id the turn loads that conversation from the
\* store; a load failure, not found included, ends the turn in Failure with
\* no provider call, no tool dispatch and no conversation created or
\* written. Without an id the turn goes on with a fresh conversation that
\* has no messages and tokenCount 0.
C26_LoadFailureEndsTurn ==
    /\ []((FailedWith(ErrNotFound) \/ FailedWith(ErrLoad))
            => /\ conversationId # 0
               /\ providerCalls = 0
               /\ dispatchLog = <<>>
               /\ contextCalls = 0
               /\ currentMessages = <<>>
               /\ traceAttempts = 0
               /\ store = storeAtStart
               /\ traces = tracesAtStart)
    /\ [](FailedWith(ErrNotFound) => conversationId \notin DOMAIN store)
    /\ [][pc = "init"
            => IF conversationId # 0
               THEN /\ store' = store
                    /\ \/ /\ pc' = "context"
                          /\ conversationId \in DOMAIN store
                          /\ conversation' = store[conversationId]
                       \/ /\ pc' = "done"
                          /\ result' \in
                                 {[success |-> FALSE, error |-> ErrNotFound],
                                  [success |-> FALSE, error |-> ErrLoad]}
               ELSE pc' = "context"
                        => /\ conversation'.messages = <<>>
                           /\ conversation'.tokenCount = 0
                           /\ conversation'.id \notin DOMAIN store]_vars

\* a turn on an id that is not in the store failed and left the store alone
C26_Witness ==
    /\ FailedWith(ErrNotFound)
    /\ conversationId = MissingId
    /\ MissingId \notin DOMAIN store
    /\ store = storeAtStart
    /\ providerCalls = 0

\* ---------------------------------------------- executeToolCall by itself
CallIds == {1, 2}
DispatchNames == toolRegistry \cup {"send_email"} \cup ObjectPrototype
DispatchInputs == {"{}", "{success:true,data:1}", "{success:false}"}

\* the calls of executeToolCall: a tool-use block of the model and what the
\* handler does when there is one
ToolCalls ==
    {c \in [toolUse : [type : {"tool_use"}, id : CallIds,
                       name : DispatchNames, input : DispatchInputs],
            outcome : {"ok", "fail", "throw", "none"}] :
        c.outcome \in (IF c.toolUse.name \in toolRegistry
                       THEN HandlerOutcomes(c.toolUse.name) ELSE {"none"})}

DispatchInit ==
    /\ call \in ToolCalls
    /\ returned = NoReturn
    /\ race = NoRace
    /\ tokenizer = NoTokenizer
    /\ TurnAtRest

\* executeToolCall(toolUse), and the tool-result message made of its trace
CallExecuteToolCall ==
    /\ returned = NoReturn
    /\ LET trace == executeToolCall(call.toolUse, call.outcome) IN
       returned' = [fn |-> "executeToolCall", value |-> trace,
                    message |-> ToolResultMessage(call.toolUse, trace)]
    /\ UNCHANGED <<turnVars, call, race, tokenizer>>

DispatchNext == CallExecuteToolCall

DispatchSpec == DispatchInit /\ [][DispatchNext]_vars

\* C27: as stated: dispatching a tool name that is not registered invokes no
\* handler and yields a result with success = false and an error text.
\* The registry is an object literal and the lookup is toolRegistry[name], so
\* an unregistered name that Object.prototype defines is found: the inherited
\* function is invoked as the handler, and for toString and constructor the
\* result has neither success = false nor an error.
C27_Original ==
    (Returned("executeToolCall") /\ call.toolUse.name \notin toolRegistry)
        => LET trace == returned.value IN
           /\ ~trace.handlerInvoked
           /\ "success" \in DOMAIN trace
           /\ ~trace.success
           /\ "error" \in DOMAIN trace.output
           /\ Len(trace.output.error) > 0

\* a message without its k-th content block
WithoutBlock(message, k) ==
    [message EXCEPT !.content =
        SubSeq(message.content, 1, k - 1)
        \o SubSeq(message.content, k + 1, Len(message.content))]

\* C30: as stated: every content block of a message contributes to the
\* message estimate, whatever its type (text, tool_use, tool_result): the
\* estimate of a message is larger than the estimate of the same message
\* without the block.  countMessageTokens has a branch for text blocks and one
\* for tool_result blocks and none for tool_use blocks, so the name and the
\* input of a tool request add nothing.
C30_Original ==
    \A m \in 1..Len(currentMessages) :
        LET message == currentMessages[m] IN
        ~message.isString
            => \A k \in 1..Len(message.content) :
                   countMessageTokens(<<message>>)
                       > countMessageTokens(<<WithoutBlock(message, k)>>)

\* the same for the blocks that the code counts: text and tool_result blocks
\* contribute, a tool_result with its call identifier and its content
C30_CountedBlocks ==
    \A m \in 1..Len(currentMessages) :
        LET message == currentMessages[m] IN
        ~message.isString
            => \A k \in 1..Len(message.content) :
                   LET block == message.content[k]
                       with == countMessageTokens(<<message>>)
                       without == countMessageTokens(<<WithoutBlock(message, k)>>)
                   IN /\ block.type = "text" => with = without + Len(block.text)
                      /\ block.type = "tool_result"
                            => with = without + Len(IdText(block.tool_use_id))
                                              + Len(block.content)
                      /\ block.type = "tool_use" => with = without

\* ------------------------------------------------- the shared encoder handle
\* tokenizer.encoder is the module variable encoder (0 is null, k is the k-th
\* handle made by encoding_for_model); created counts the handles made,
\* freed[k] counts the calls of free() on handle k, and ops is the log of the
\* calls of countTokens and cleanup
MaxOps == 4
EncoderTexts == {<<>>, <<"hi">>, <<"please", "help">>}

\* getEncoder(): makes the handle when there is none
getEncoder(t) ==
    IF t.encoder = 0
    THEN [t EXCEPT !.encoder = t.created + 1, !.created = t.created + 1,
                   !.freed = Append(t.freed, 0)]
    ELSE t

\* countTokens(text): an empty text returns 0 before the encoder is asked
\* for; otherwise the handle of getEncoder() encodes the text
encode(t, text) ==
    IF text = <<>>
    THEN [t EXCEPT !.ops = Append(@, [op |-> "countTokens", text |-> text,
                                      handle |-> 0, usedFreed |-> FALSE,
                                      value |-> 0])]
    ELSE LET g == getEncoder(t) IN
         [g EXCEPT !.ops = Append(@, [op |-> "countTokens", text |-> text,
                                      handle |-> g.encoder,
                                      usedFreed |-> g.freed[g.encoder] > 0,
                                      value |-> Len(text)])]

\* variant: the handle is released and the module variable keeps it
cleanupKeepsHandle(t) ==
    IF t.encoder # 0
    THEN [t EXCEPT !.freed[t.encoder] = @ + 1,
                   !.ops = Append(@, [op |-> "cleanup", text |-> <<>>,
                                      handle |-> t.encoder,
                                      usedFreed |-> t.freed[t.encoder] > 0,
                                      value |-> 0])]
    ELSE [t EXCEPT !.ops = Append(@, [op |-> "cleanup", text |-> <<>>,
                                      handle |-> 0, usedFreed |-> FALSE,
                                      value |-> 0])]

\* cleanup(): releases the handle and forgets it, when there is one
cleanup(t) ==
    IF t.encoder # 0
    THEN [t EXCEPT !.freed[t.encoder] = @ + 1, !.encoder = 0,
                   !.ops = Append(@, [op |-> "cleanup", text |-> <<>>,
                                      handle |-> t.encoder,
                                      usedFreed |-> t.freed[t.encoder] > 0,
                                      value |-> 0])]
    ELSE [t EXCEPT !.ops = Append(@, [op |-> "cleanup", text |-> <<>>,
                                      handle |-> 0, usedFreed |-> FALSE,
                                      value |-> 0])]

TokenizerInit ==
    /\ tokenizer = NoTokenizer
    /\ call = NoCall
    /\ returned = NoReturn
    /\ race = NoRace
    /\ TurnAtRest

CountTokens ==
    /\ Len(tokenizer.ops) < MaxOps
    /\ \E text \in EncoderTexts : tokenizer' = encode(tokenizer, text)
    /\ UNCHANGED <<turnVars, call, returned, race>>

Cleanup ==
    /\ Len(tokenizer.ops) < MaxOps
    /\ tokenizer' = cleanup(tokenizer)
    /\ UNCHANGED <<turnVars, call, returned, race>>

TokenizerNext == CountTokens \/ Cleanup

TokenizerSpec == TokenizerInit /\ [][TokenizerNext]_vars

\* C29: the encoder handle is made lazily, by the first estimate of a
\* non-empty text while there is no handle, and only then; no call uses a
\* handle that was released; every handle is released at most once; at most
\* one handle is live, the one the module variable holds; cleanup without a
\* live handle changes nothing; and an estimate after cleanup makes a new
\* handle.
C29_EncoderHandleLifecycle ==
    /\ [](/\ \A k \in 1..Len(tokenizer.ops) : ~tokenizer.ops[k].usedFreed
          /\ Len(tokenizer.freed) = tokenizer.created
          /\ \A h \in 1..tokenizer.created :
                 /\ tokenizer.freed[h] <= 1
                 /\ tokenizer.freed[h] = 0 <=> h = tokenizer.encoder
          /\ tokenizer.created = 0
                 => \A k \in 1..Len(tokenizer.ops) :
                        tokenizer.ops[k].handle = 0)
    /\ [][LET op == tokenizer'.ops[Len(tokenizer'.ops)] IN
          /\ tokenizer'.created # tokenizer.created
                <=> (op.op = "countTokens" /\ op.text # <<>>
                     /\ tokenizer.encoder = 0)
          /\ tokenizer'.created # tokenizer.created
                => /\ tokenizer'.created = tokenizer.created + 1
                   /\ tokenizer'.encoder = tokenizer'.created
                   /\ op.handle = tokenizer'.created
          /\ (op.op = "cleanup" /\ tokenizer.encoder = 0)
                => /\ tokenizer'.encoder = 0
                   /\ tokenizer'.freed = tokenizer.freed
                   /\ tokenizer'.created = tokenizer.created
          /\ (op.op = "cleanup" /\ tokenizer.encoder # 0)
                => /\ tokenizer'.encoder = 0
                   /\ tokenizer'.freed[tokenizer.encoder] = 1
          /\ (op.op = "countTokens" /\ tokenizer.encoder # 0)
                => /\ tokenizer'.encoder = tokenizer.encoder
                   /\ tokenizer'.freed = tokenizer.freed
                   /\ op.text # <<>> => op.handle = tokenizer.encoder
         ]_vars

\* an estimate, cleanup, a second cleanup that found nothing to release, and
\* an estimate that made the second handle
C29_Witness ==
    /\ Len(tokenizer.ops) = 4
    /\ tokenizer.ops[1].op = "countTokens" /\ tokenizer.ops[1].handle = 1
    /\ tokenizer.ops[2].op = "cleanup" /\ tokenizer.ops[2].handle = 1
    /\ tokenizer.ops[3].op = "cleanup" /\ tokenizer.ops[3].handle = 0
    /\ tokenizer.ops[4].op = "countTokens" /\ tokenizer.ops[4].handle = 2
    /\ tokenizer.created = 2
    /\ tokenizer.freed = <<1, 0>>
    /\ tokenizer.encoder = 2

\* ------------------------------------------- two turns on one conversation
\* race.file is the conversation file as a sequence of chunks, race.procs the
\* two calls of processMessage with the same conversation id, race.order the
\* turns in the order their saves completed
Procs == {1, 2}
TurnKinds == {"text", "tool"}

\* JSON.stringify(conversation): the fields before the messages, one chunk
\* per message, and the closing chunk
Serialize(conv) ==
    <<[kind |-> "head", conv |-> [conv EXCEPT !.messages = <<>>]]>>
    \o [k \in 1..Len(conv.messages) |->
           [kind |-> "message", message |-> conv.messages[k]]]
    \o <<[kind |-> "tail", count |-> Len(conv.messages)]>>

\* JSON.parse accepts exactly one complete value: text after it, or a text
\* that ends early, is a syntax error
Parses(file) ==
    /\ Len(file) >= 2
    /\ file[1].kind = "head"
    /\ file[Len(file)].kind = "tail"
    /\ \A k \in 2..(Len(file) - 1) : file[k].kind = "message"

Parse(file) ==
    [file[1].conv EXCEPT
        !.messages = [k \in 1..(Len(file) - 2) |-> file[k + 1].message]]

\* a write of the whole content at offset 0 of a file that another writer
\* has written since it was truncated: what lies past the written content
\* stays
Overlay(file, content) ==
    IF Len(file) > Len(content)
    THEN content \o SubSeq(file, Len(content) + 1, Len(file))
    ELSE content

\* the messages of turn p: its user message and what the loop appended
RaceUserMessage(p) ==
    SimpleMessage("user", IF p = 1 THEN "first" ELSE "second")

RaceTurnMessages(p, kind) ==
    LET toolUse == [type |-> "tool_use", id |-> p, name |-> "list_tasks",
                    input |-> "{}"]
        answer == SimpleMessage("assistant",
                                IF p = 1 THEN "one" ELSE "two")
    IN IF kind = "text" THEN <<RaceUserMessage(p), answer>>
       ELSE <<RaceUserMessage(p),
              [role |-> "assistant", isString |-> FALSE,
               content |-> <<toolUse>>],
              ToolResultMessage(toolUse, executeToolCall(toolUse, "ok")),
              answer>>

\* step 6 for a turn of the race
RaceUpdatedConversation(conv, messages, now) ==
    [conv EXCEPT
        !.lastMessageAt = now,
        !.messages = messages,
        !.tokenCount = getTotalRequestTokens(systemPrompt, messages, tools)]

RaceIdle ==
    [pc |-> "start", conversation |-> NoConversation, own |-> <<>>,
     updated |-> NoConversation, result |-> "none"]

RaceInit ==
    /\ race = [file |-> Serialize(StoredConversation(ExistingId, Transcript(2))),
               procs |-> [p \in Procs |-> RaceIdle],
               order |-> <<>>, overlap |-> FALSE, interleaved |-> FALSE]
    /\ tokenizer = NoTokenizer
    /\ call = NoCall
    /\ returned = NoReturn
    /\ TurnAtRest

RaceFrame == UNCHANGED <<turnVars, call, returned, tokenizer>>

\* step 1: loadConversation reads and parses the file
RaceLoad(p) ==
    /\ race.procs[p].pc = "start"
    /\ race' = IF Parses(race.file)
               THEN [race EXCEPT !.procs[p].pc = "loaded",
                                 !.procs[p].conversation = Parse(race.file)]
               ELSE [race EXCEPT !.procs[p].pc = "done",
                                 !.procs[p].result = ErrLoad]
    /\ RaceFrame

\* steps 2 to 6: the user message, the loop (which leaves the store alone)
\* and the conversation to persist
RaceRun(p) ==
    /\ race.procs[p].pc = "loaded"
    /\ \E kind \in TurnKinds :
        LET own == RaceTurnMessages(p, kind)
            conv == race.procs[p].conversation
        IN race' = [race EXCEPT
                       !.procs[p].pc = "ran",
                       !.procs[p].own = own,
                       !.procs[p].updated =
                           RaceUpdatedConversation(conv, conv.messages \o own,
                                                   p)]
    /\ RaceFrame

\* step 7, first part: writeFile opens the file for writing, which empties it
RaceOpen(p) ==
    /\ race.procs[p].pc = "ran"
    /\ race' = [race EXCEPT
                   !.procs[p].pc = "opened",
                   !.file = <<>>,
                   !.overlap = IF \A q \in Procs : race.procs[q].pc # "opened"
                                     /\ race.order = <<>>
                               THEN \A q \in Procs :
                                        race.procs[q].pc \in {"loaded", "ran"}
                               ELSE @,
                   !.interleaved = @ \/ \E q \in Procs :
                                            race.procs[q].pc = "opened"]
    /\ RaceFrame

\* step 7, second part: writeFile writes the content from the start of the
\* file and the save returns Success
RaceWrite(p) ==
    /\ race.procs[p].pc = "opened"
    /\ race' = [race EXCEPT
                   !.procs[p].pc = "done",
                   !.procs[p].result = "success",
                   !.file = Overlay(race.file,
                                    Serialize(race.procs[p].updated)),
                   !.order = Append(@, p)]
    /\ RaceFrame

RaceNext ==
    \E p \in Procs : RaceLoad(p) \/ RaceRun(p) \/ RaceOpen(p) \/ RaceWrite(p)

RaceSpec == RaceInit /\ [][RaceNext]_vars

BothSucceeded == \A p \in Procs : race.procs[p].result = "success"
LastSaver == race.order[Len(race.order)]
FirstSaver == race.order[1]

\* C28: as stated: when both turns loaded before either saved and both
\* succeeded, the persisted conversation is exactly the one the last saver
\* wrote, and no message of the other turn is in it.
\* saveConversation writes with fs.writeFile, which opens (and empties) the
\* file and then writes; when the two saves overlap as well, the later write
\* lands on the earlier one, and a shorter later content leaves the end of
\* the longer earlier one behind it: the file is then no conversation at
\* all.
C28_Original ==
    (BothSucceeded /\ race.overlap)
        => /\ Parses(race.file)
           /\ Parse(race.file) = race.procs[LastSaver].updated
           /\ \A k \in 1..Len(race.file) :
                  race.file[k].kind = "message"
                      => \A j \in 1..Len(race.procs[FirstSaver].own) :
                             race.file[k].message
                                 # race.procs[FirstSaver].own[j]

\* what the code does guarantee: when the saves do not overlap, or the last
\* content is not the shorter one, the last save wins and the messages of the
\* other turn are lost
C28_LastWriteWinsWhenSavesInOrder ==
    (BothSucceeded /\ race.overlap
     /\ (~race.interleaved
         \/ Len(race.procs[LastSaver].own) >= Len(race.procs[FirstSaver].own)))
        => /\ Parses(race.file)
           /\ Parse(race.file) = race.procs[LastSaver].updated
           /\ \A j \in 1..Len(race.procs[FirstSaver].own) :
                  \A k \in 1..Len(Parse(race.file).messages) :
                      Parse(race.file).messages[k]
                          # race.procs[FirstSaver].own[j]

\* ------------------------------------------------- countTokens on characters
\* a text as its characters, and enc.encode as the byte-pair encoding that
\* encoding_for_model returns: every character starts as a piece of its own,
\* and the adjacent pair of pieces with the lowest merge rank is joined until
\* no pair has a rank.  The merge table is a fragment of the shape such
\* tables have: a long token is the merge of two shorter ones.
MaxChars == 5
Alphabet == {"w", "o", "r", "l", "d"}
Merges ==
    << <<<<"o">>, <<"r">>>>,
       <<<<"l">>, <<"d">>>>,
       <<<<"w">>, <<"o", "r">>>>,
       <<<<"w", "o", "r">>, <<"l", "d">>>> >>

Pieces(chars) == [k \in 1..Len(chars) |-> <<chars[k]>>]

\* the ranks of the merges that apply to some adjacent pair of the pieces
ApplicableMerges(pieces) ==
    {r \in 1..Len(Merges) :
        \E k \in 1..(Len(pieces) - 1) :
            pieces[k] = Merges[r][1] /\ pieces[k + 1] = Merges[r][2]}

LowestRank(ranks) == CHOOSE r \in ranks : \A q \in ranks : r <= q

\* the pieces with the leftmost pair of the merge joined
MergeAt(pieces, merge) ==
    LET k == CHOOSE j \in 1..(Len(pieces) - 1) :
                 /\ pieces[j] = merge[1] /\ pieces[j + 1] = merge[2]
                 /\ \A h \in 1..(j - 1) :
                        ~(pieces[h] = merge[1] /\ pieces[h + 1] = merge[2])
    IN SubSeq(pieces, 1, k - 1) \o <<pieces[k] \o pieces[k + 1]>>
       \o SubSeq(pieces, k + 2, Len(pieces))

RECURSIVE bytePairEncode(_)
bytePairEncode(pieces) ==
    IF ApplicableMerges(pieces) = {} THEN pieces
    ELSE bytePairEncode(
             MergeAt(pieces, Merges[LowestRank(ApplicableMerges(pieces))]))

\* countTokens(text) for a text given by its characters
countTokensOfChars(chars) ==
    IF chars = <<>> THEN 0 ELSE Len(bytePairEncode(Pieces(chars)))

EstimateInit ==
    /\ call = [text |-> <<>>]
    /\ returned = NoReturn
    /\ race = NoRace
    /\ tokenizer = NoTokenizer
    /\ TurnAtRest

\* a character is appended to the text
TypeChar ==
    /\ Len(call.text) < MaxChars
    /\ \E c \in Alphabet : call' = [text |-> Append(call.text, c)]
    /\ returned' = NoReturn
    /\ UNCHANGED <<turnVars, race, tokenizer>>

\* countTokens(text)
CallCountTokens ==
    /\ returned = NoReturn
    /\ returned' = [fn |-> "countTokens",
                    value |-> countTokensOfChars(call.text)]
    /\ UNCHANGED <<turnVars, call, race, tokenizer>>

EstimateNext == TypeChar \/ CallCountTokens

EstimateSpec == EstimateInit /\ [][EstimateNext]_vars

\* C31: as stated: the estimate of the empty text is 0, and appending a
\* character never lowers the estimate.
\* The estimate is the number of tokens of a byte-pair encoding, and a
\* character that completes a longer token lowers it: "worl" is two tokens
\* and "world" is one.
C31_Original ==
    /\ []((Returned("countTokens") /\ call.text = <<>>) => returned.value = 0)
    /\ [][(Returned("countTokens") /\ returned' = NoReturn)
             => returned.value <= countTokensOfChars(call'.text)]_vars

\* what holds of the estimate: 0 for the empty text, and for a text with
\* characters at least one token and at most one token per character
C31_EstimateBounds ==
    Returned("countTokens")
        => /\ call.text = <<>> <=> returned.value = 0
           /\ returned.value <= Len(call.text)

\* C32: in every turn applyContextManagement is called at most once and only
\* when maxConversationTokens is configured; the call is made in step 2,
\* before the user message is appended and before any provider call of the
\* loop, and a configured turn that reaches step 2 makes it; once the loop
\* has begun the context manager is not called again, whatever the length of
\* the message list.
C32_ContextManagerOncePerTurn ==
    /\ [](/\ contextCalls <= 1
          /\ contextCalls = 1 => ContextEnabled
          /\ pc \in {"loop", "awaitApi", "tools", "awaitTool", "save",
                     "saveTrace"}
                => contextCalls = (IF ContextEnabled THEN 1 ELSE 0))
    /\ [][/\ contextCalls' > contextCalls
              => /\ pc = "context"
                 /\ ContextEnabled
                 /\ contextCalls = 0
                 /\ currentMessages = <<>>
                 /\ providerCalls = 0
                 /\ i = 0
                 /\ iterations = <<>>
          /\ (pc = "context" /\ ContextEnabled) => contextCalls' = 1
          /\ pc \in {"loop", "awaitApi", "tools", "awaitTool"}
              => contextCalls' = contextCalls]_vars

\* the second iteration of a turn of a configured agent has begun, over a
\* message list that grew in the first, and the context manager was called
\* once
C32_Witness ==
    /\ ContextEnabled
    /\ pc = "awaitApi"
    /\ i = 1
    /\ Len(iterations) = 1
    /\ providerCalls = 2
    /\ contextCalls = 1
    /\ Len(currentMessages) > Len(conversation.messages) + 1

\* the messages persisted under the turn's conversation before the turn
PreviouslyPersisted ==
    IF conversation.id \in DOMAIN storeAtStart
    THEN storeAtStart[conversation.id].messages ELSE <<>>

IsSummaryMessage(message) ==
    /\ message.role = "user"
    /\ message.isString
    /\ Head(StringOf(message)) = "[Previous conversation summary:"

\* the messages of a turn after its user message: for each tool iteration the
\* assistant message and one tool-result message per request, in request
\* order, and last an assistant message without requests
RECURSIVE IterationsThenAnswer(_)
IterationsThenAnswer(messages) ==
    /\ messages # <<>>
    /\ Head(messages).role = "assistant"
    /\ LET ids == RequestsOf(Head(messages)) IN
       IF ids = <<>> THEN Len(messages) = 1
       ELSE /\ Len(messages) > Len(ids) + 1
            /\ \A j \in 1..Len(ids) : IsResultFor(messages[1 + j], ids[j])
            /\ IterationsThenAnswer(
                   SubSeq(messages, Len(ids) + 2, Len(messages)))

\* the persisted list after a successful turn: the prefix, the user message
\* of the turn, and the iterations with the final answer
PersistedAfterTurn(prefix) ==
    LET persisted == store[conversation.id].messages IN
    /\ Len(persisted) >= Len(prefix) + 1
    /\ SubSeq(persisted, 1, Len(prefix)) = prefix
    /\ persisted[Len(prefix) + 1]
           = [role |-> "user", isString |-> TRUE,
              content |-> StringContent(userMessage)]
    /\ IterationsThenAnswer(
           SubSeq(persisted, Len(prefix) + 2, Len(persisted)))

\* the prefix of the claim: what was persisted before, or after a
\* summarization the summary message and the most recent messages
PrefixHolds ==
    IF SummarizedThisTurn
    THEN /\ IsSummaryMessage(conversation.messages[1])
         /\ Tail(conversation.messages)
                = slice(PreviouslyPersisted, -KeepRecentCount,
                        Len(PreviouslyPersisted))
    ELSE conversation.messages = PreviouslyPersisted

\* C33: as stated: after a successful turn the persisted list is the prefix
\* (the previously persisted list, or the summary message and the retained
\* recent messages), the new user message, the tool iterations and the final
\* assistant message.
\* With maxIterations = 0 a turn succeeds without a provider call (C4), and
\* the list it persists ends with the user message.
C33_Original ==
    Succeeded => /\ PrefixHolds
                 /\ PersistedAfterTurn(conversation.messages)

\* what holds for every successful turn: the prefix is unchanged and the
\* user message follows it; what holds when the loop ran: the iterations
\* and the final answer follow
C33_PrefixThenTurn ==
    Succeeded
        => /\ PrefixHolds
           /\ IsPrefix(conversation.messages
                           \o <<[role |-> "user", isString |-> TRUE,
                                 content |-> StringContent(userMessage)]>>,
                       store[conversation.id].messages)
           /\ providerCalls > 0 => PersistedAfterTurn(conversation.messages)

RECURSIVE TextsOfBlocks(_)
\* the texts of the text blocks of a content, block by block
TextsOfBlocks(blocks) ==
    IF blocks = <<>> THEN <<>>
    ELSE (IF Head(blocks).type = "text" THEN Head(blocks).text ELSE <<>>)
         \o TextsOfBlocks(Tail(blocks))

RECURSIVE TextsOfMessages(_)
\* the texts of the assistant messages, message by message
TextsOfMessages(messages) ==
    IF messages = <<>> THEN <<>>
    ELSE (IF Head(messages).role = "assistant"
          THEN TextsOfBlocks(Head(messages).content) ELSE <<>>)
         \o TextsOfMessages(Tail(messages))

\* C34: the response of a successful turn is the concatenation of the text
\* blocks of every provider response of the turn, in iteration order and in
\* block order, the text beside tool requests included, and the trace's
\* assistantResponse is the same text; during the turn the accumulated text
\* is that of the responses received so far.
C34_ResponseIsConcatenatedText ==
    /\ pc \in {"loop", "tools", "awaitTool", "save", "saveTrace"}
           => assistantResponse = TextsOfMessages(TurnMessages)
    /\ Succeeded
           => /\ result.data.response
                      = TextsOfMessages(
                            SubSeq(result.data.updatedConversation.messages,
                                   Len(conversation.messages) + 2,
                                   Len(result.data.updatedConversation.messages)))
              /\ result.data.trace.assistantResponse = result.data.response

\* a tool iteration whose response had two text blocks beside the request,
\* then the final answer
C34_Witness ==
    /\ Succeeded
    /\ Len(result.data.trace.iterations) = 2
    /\ result.data.response = <<"Adding", "it", "Done.">>

\* tool requests of the iterations that completed
RECURSIVE ToolsExecuted(_)
ToolsExecuted(its) ==
    IF its = <<>> THEN 0
    ELSE Len(Head(its).toolsExecuted) + ToolsExecuted(Tail(its))

\* C35: a turn always ends with a Result, never with an exception; when the
\* provider call of an iteration fails, that step ends the turn in Failure
\* and writes nothing, and the turn has made no provider call and no tool
\* dispatch after the failed call, no conversation save and no trace save:
\* the store holds what it held when the loop began and the traces are those
\* from before the turn.
C35_ProviderFailureEndsTurn ==
    /\ [](pc = "done" => result # NoResult)
    /\ [](FailedWith(ErrProvider)
              => /\ inflight = {}
                 /\ providerCalls = Len(iterations) + 1
                 /\ Len(dispatchLog) = ToolsExecuted(iterations)
                 /\ traceAttempts = 0
                 /\ traces = tracesAtStart
                 /\ \A id \in DOMAIN storeAtStart : store[id] = storeAtStart[id]
                 /\ \A id \in DOMAIN store \ DOMAIN storeAtStart :
                        /\ id = conversation.id
                        /\ store[id].messages = <<>>)
    /\ [][(pc = "awaitApi" /\ pc' = "done")
             => /\ result' = [success |-> FALSE, error |-> ErrProvider]
                /\ store' = store
                /\ traces' = traces
                /\ providerCalls' = providerCalls
                /\ dispatchLog' = dispatchLog
                /\ traceAttempts' = traceAttempts
                /\ currentMessages' = currentMessages]_vars
    /\ [][pc = "done" => pc' = "init"]_vars

\* the provider failed in the second iteration, after a tool had run
C35_Witness ==
    /\ FailedWith(ErrProvider)
    /\ providerCalls = 2
    /\ Len(iterations) = 1
    /\ Len(dispatchLog) >= 1
    /\ store = storeAtStart

\* every tool_result block of the list has the call identifier of a tool_use
\* block of an earlier assistant message of the list
WellPaired(messages) ==
    \A k \in 1..Len(messages) :
        ~messages[k].isString
            => \A b \in 1..Len(messages[k].content) :
                   messages[k].content[b].type = "tool_result"
                       => \E j \in 1..(k - 1) :
                              /\ messages[j].role = "assistant"
                              /\ \E r \in 1..Len(RequestsOf(messages[j])) :
                                     RequestsOf(messages[j])[r]
                                         = messages[k].content[b].tool_use_id

\* C36: as stated, for the list a turn sends after a summarization: the
\* summary message and the retained recent messages of a well-paired list
\* are well-paired.
\* summarizeOldMessages cuts the list at a fixed count from the end
\* (messages.slice(-keepRecentCount)), wherever that falls: when the first
\* retained message is a tool result, its request went into the summary.
C36_Original ==
    (/\ Returned("summarizeOldMessages")
     /\ returned.value.success
     /\ WellPaired(Messages))
        => WellPaired(returned.value.data.summarizedMessages)

\* what holds: the messages a turn appends keep the list well-paired, so
\* every list sent to the provider is well-paired when the list the loop
\* started from was
C36_LoopKeepsPairing ==
    (pc \in {"loop", "awaitApi", "tools", "awaitTool", "save", "saveTrace"}
     /\ WellPaired(conversation.messages))
        => WellPaired(currentMessages)

\* the persisted conversation of the turn needs summarization and has no
\* more messages than are kept verbatim
StuckConversation ==
    /\ ContextEnabled
    /\ conversationId \in DOMAIN store
    /\ store[conversationId].tokenCount >= safetyLimits.summarizationThreshold
    /\ Len(store[conversationId].messages) <= KeepRecentCount

\* C37: as stated: with context management enabled, a turn on a persisted
\* conversation at or above the summarization threshold does not end in the
\* failure of context management unless a provider call failed; in
\* particular no turn fails because the conversation has too few messages
\* to summarize.
\* A conversation with at most 20 messages and a tokenCount at or above the
\* threshold fails in summarizeOldMessages before any provider call; the
\* failed turn writes nothing, so the conversation stays as it is and every
\* later turn on it fails in the same way.
C37_Original ==
    ~(/\ FailedWith(ErrContext)
      /\ StuckConversation
      /\ providerCalls = 0
      /\ store = storeAtStart)

\* the failure is decided by the persisted conversation alone and leaves it
\* unchanged
C37_StuckStaysStuck ==
    [][(pc = "context" /\ StuckConversation)
          => /\ conversation = store[conversationId]
             /\ pc' = "done"
             /\ result' = [success |-> FALSE, error |-> ErrContext]
             /\ store' = store]_vars

\* C38: as stated: a turn in which a tool was dispatched ends in Success,
\* with every dispatched call in the persisted transcript and in the trace.
\* The tools of an iteration run before the checks that can still fail the
\* turn: the iteration limit after the tools of iteration maxIterations, the
\* hard limit and the provider call of the next iteration, and the save of
\* the conversation; a turn that fails there has run its tools and records
\* them nowhere.
C38_Original ==
    (pc = "done" /\ dispatchLog # <<>>)
        => /\ result.success
           /\ ResultIds(SubSeq(store[conversation.id].messages,
                               Len(conversation.messages) + 2,
                               Len(store[conversation.id].messages)))
                  = dispatchLog
           /\ ToolsExecuted(result.data.trace.iterations) = Len(dispatchLog)

\* what holds: a turn that ends in Success records every dispatched call in
\* the persisted transcript and in the returned trace, in dispatch order
C38_SuccessRecordsTools ==
    Succeeded
        => /\ ResultIds(SubSeq(store[conversation.id].messages,
                               Len(conversation.messages) + 2,
                               Len(store[conversation.id].messages)))
                  = dispatchLog
           /\ ToolsExecuted(result.data.trace.iterations) = Len(dispatchLog)

====
